---- MODULE Spec2Model ----
(***************************************************************************)
(* Credential lifecycle of telegram-ai-reminder-bot: the user_tokens       *)
(* table (managers/storage_manager.py), the token validator                *)
(* (validation.py, core/auth.py) and get_valid_token / refresh_access_token*)
(* (core/user_tokens.py).  Token dictionaries are functions from key names *)
(* to values, so a missing key is a key outside DOMAIN.  A coroutine is an *)
(* action per stretch of code between two awaits.  Reminders: the          *)
(* reminders table, ScheduleManager (managers/schedule_manager.py) and the *)
(* add and delete paths of the Telegram handlers and the agent adapter.    *)
(* The scheduler's pending and stored jobs are one list, seen at the       *)
(* boundaries between coroutine steps.                                     *)
(***************************************************************************)
EXTENDS Integers, FiniteSets, Sequences, TLC

VARIABLES
    now,            \* int(time()): the wall clock, in epoch seconds
    ticks,          \* how often the clock has advanced
    ops,            \* how many operations have been started
    user_tokens,    \* table user_tokens: user_id -> token_data, one row per key
    pc,             \* per client: where its coroutine is suspended
    local,          \* per client: arguments and local variables of the running call
    result,         \* per client: what the call returned or raised
    obs,            \* per client: what the call did (calls made, requests sent)
    reminders,      \* table reminders: id -> row (user_id, cron, message)
    jobs,           \* the scheduler's job list: job id and args of _job_wrapper
    running,        \* scheduler.running
    callback,       \* ScheduleManager.callback, "none" while unset
    registered,     \* the callback most recently passed to set_callback
    fired,          \* the firings of _job_wrapper so far
    calls,          \* the invocations of a callback so far
    spc,            \* per client: where its reminder request is suspended
    task,           \* per client: arguments, locals and result of the request
    last_op,        \* the last ScheduleManager call and the state it found
    retry,          \* RetryTransport.handle_async_request: the request in progress
    conversation_history,   \* table conversation_history: user_id -> messages
    last_call,      \* the last StorageManager call: arguments, result, tables found
    log_run         \* the log lines of a credential operation, for two runs

cred_vars == <<now, ticks, ops, user_tokens, pc, local, result, obs>>
sched_vars == <<reminders, jobs, running, callback, registered, fired, calls, spc, task, last_op>>
util_vars == <<retry, conversation_history, last_call, log_run>>
vars == <<now, ticks, ops, user_tokens, pc, local, result, obs,
          reminders, jobs, running, callback, registered, fired, calls, spc, task,
          last_op, retry, conversation_history, last_call, log_run>>

(***************************** bounds and constants ************************)
MaxTicks == 3
MaxOps == 3
StartTime == 1000

LOOKAHEAD == 300
DEFAULT_EXPIRES_IN == 3600
HTTP_OK == 200
HTTP_BAD_REQUEST == 400
HTTP_SERVER_ERROR == 500

Users == {"u1", "u2"}
Clients == {"c1", "c2"}
SeqClients == {"c1"}

\* Elapsed time between two steps: one second, or one second short of the window.
TickSteps == {1, LOOKAHEAD - 1}
\* Lifetimes (expires_in) the provider reports.
Lifetimes == {1, LOOKAHEAD}
NewAccessTokens == {"A1"}
NewRefreshTokens == {"R1"}

(***************************** python values *******************************)
None == [py_none |-> TRUE]

\* d[k] = v on a dict
SetKey(d, k, v) == [x \in DOMAIN d \cup {k} |-> IF x = k THEN v ELSE d[x]]
\* d.get(k, default)
Get(d, k, default) == IF k \in DOMAIN d THEN d[k] ELSE default
\* bool(d) of a dict-or-None
TruthyDict(d) == d # None /\ DOMAIN d # {}
\* bool(d.get(k)) of a string-valued key
TruthyStr(d, k) == k \in DOMAIN d /\ d[k] # ""
\* bool(d.get(k)) of an integer-valued key
TruthyInt(d, k) == k \in DOMAIN d /\ d[k] # 0

Returned(v) == [kind |-> "return", value |-> v]
Pending == [kind |-> "pending"]

(***************************** storage *************************************)
get_user_token_nofilter(t, u) ==
    IF DOMAIN t = {} THEN None ELSE t[CHOOSE k \in DOMAIN t : TRUE]

get_user_token(t, u) == IF u \in DOMAIN t THEN t[u] ELSE None

save_user_token_insert_only(t, u, td) == IF u \in DOMAIN t THEN t ELSE SetKey(t, u, td)

save_user_token_keep_refresh_token(t, u, td) ==
    IF u \in DOMAIN t /\ "refresh_token" \in DOMAIN t[u]
    THEN SetKey(t, u, SetKey(td, "refresh_token", t[u]["refresh_token"]))
    ELSE SetKey(t, u, td)

save_user_token(t, u, td) == SetKey(t, u, td)

(***************************** validator ***********************************)
is_token_valid_le(td, t) ==
    IF ~TruthyDict(td) THEN FALSE
    ELSE IF ~TruthyInt(td, "expires_at") THEN FALSE
    ELSE t <= td["expires_at"]

is_token_valid(td, t) ==
    IF ~TruthyDict(td) THEN FALSE
    ELSE IF ~TruthyInt(td, "expires_at") THEN FALSE
    ELSE t < td["expires_at"]

(***************************** provider ************************************)
NoResponse == [kind |-> "none"]
TransportError == [kind |-> "transport_error"]
HttpResponse(s, body) == [kind |-> "response", status_code |-> s, json |-> body]

TokenBodies ==
    LET b0 == {[access_token |-> a] : a \in NewAccessTokens}
        b1 == b0 \cup {SetKey(b, "expires_in", e) : b \in b0, e \in Lifetimes}
    IN  b1 \cup {SetKey(b, "refresh_token", r) : b \in b1, r \in NewRefreshTokens}

ErrorBody == [error |-> "invalid_grant"]

TokenEndpointOutcomes ==
    {HttpResponse(HTTP_OK, b) : b \in TokenBodies}
        \cup {HttpResponse(s, ErrorBody) : s \in {HTTP_BAD_REQUEST, HTTP_SERVER_ERROR}}
        \cup {TransportError}

\* Token dictionaries a login (or any caller of save_user_token) stores at time t.
LoginTokens(t) ==
    LET b0 == {[access_token |-> "A0", scope |-> "cal"]}
        b1 == b0 \cup {SetKey(b, "refresh_token", r) : b \in b0, r \in {"", "R0"}}
    IN  b1 \cup {SetKey(b, "expires_at", e) : b \in b1,
                                               e \in {0} \cup {t + l : l \in Lifetimes}}

(***************************** refresh_access_token ************************)
has_refresh_token_key_only(td) == "refresh_token" \in DOMAIN td

\* `if not refresh_token` is false
has_refresh_token(td) == TruthyStr(td, "refresh_token")

refresh_status_5xx_only(resp) ==
    IF resp.kind = "transport_error" THEN "TransportError"
    ELSE IF resp.status_code >= HTTP_SERVER_ERROR THEN "ValueError"
    ELSE IF "access_token" \notin DOMAIN resp.json THEN "KeyError"
    ELSE "ok"

\* how the exchange ends: the exception class raised, or "ok"
refresh_status(resp) ==
    IF resp.kind = "transport_error" THEN "TransportError"
    ELSE IF resp.status_code # HTTP_OK THEN "ValueError"
    ELSE IF "access_token" \notin DOMAIN resp.json THEN "KeyError"
    ELSE "ok"

apply_refresh_always_sets_refresh_token(td, new_token_data, t) ==
    LET d1 == SetKey(td, "access_token", new_token_data["access_token"])
        d2 == SetKey(d1, "expires_at", t + Get(new_token_data, "expires_in", DEFAULT_EXPIRES_IN))
    IN  SetKey(d2, "refresh_token", Get(new_token_data, "refresh_token", ""))

apply_refresh_rebuilds_record(td, new_token_data, t) ==
    LET d1 == [access_token |-> new_token_data["access_token"]]
        d2 == SetKey(d1, "expires_at", t + Get(new_token_data, "expires_in", DEFAULT_EXPIRES_IN))
    IN  SetKey(d2, "refresh_token", Get(new_token_data, "refresh_token", td["refresh_token"]))

apply_refresh_keeps_expiry(td, new_token_data, t) ==
    LET d1 == SetKey(td, "access_token", new_token_data["access_token"])
    IN  IF "refresh_token" \in DOMAIN new_token_data
        THEN SetKey(d1, "refresh_token", new_token_data["refresh_token"])
        ELSE d1

\* token_data after the assignments that follow a 200 response, at time t
apply_refresh(td, new_token_data, t) ==
    LET d1 == SetKey(td, "access_token", new_token_data["access_token"])
        d2 == SetKey(d1, "expires_at", t + Get(new_token_data, "expires_in", DEFAULT_EXPIRES_IN))
    IN  IF "refresh_token" \in DOMAIN new_token_data
        THEN SetKey(d2, "refresh_token", new_token_data["refresh_token"])
        ELSE d2

(***************************** get_valid_token *****************************)
needs_refresh_le(expires_at, current_time) == expires_at <= current_time + LOOKAHEAD

\* the proactive-refresh test
needs_refresh(expires_at, current_time) == expires_at < current_time + LOOKAHEAD

on_refresh_failure_le(time_until_expiry, td) ==
    IF time_until_expiry <= 0 THEN None ELSE td

\* what the except branch returns
on_refresh_failure(time_until_expiry, td) ==
    IF time_until_expiry < 0 THEN None ELSE td

(***************************** revoke / delete *****************************)
delete_user_token_always_true(t, u) ==
    [table |-> [k \in DOMAIN t \ {u} |-> t[k]], ret |-> TRUE]

delete_user_token_keeps_row(t, u) ==
    [table |-> t, ret |-> u \in DOMAIN t]

\* StorageManager.delete_user_token: the table afterwards and the value returned
delete_user_token(t, u) ==
    [table |-> [k \in DOMAIN t \ {u} |-> t[k]], ret |-> u \in DOMAIN t]

\* Records a caller of save_user_token may store that are no login result:
\* no access_token, or an empty one.
DegradedTokens == {[scope |-> "cal"], [access_token |-> "", scope |-> "cal"]}

RevokeEndpointOutcomes ==
    {HttpResponse(s, ErrorBody) : s \in {HTTP_OK, HTTP_BAD_REQUEST, HTTP_SERVER_ERROR}}
        \cup {TransportError}

\* `if not access_token` is false
has_access_token(td) == TruthyStr(td, "access_token")

revoke_result_200_only(resp) ==
    IF resp.kind = "transport_error" THEN FALSE
    ELSE resp.status_code = HTTP_OK

\* what revoke_google_token returns once the revoke endpoint has answered
revoke_result(resp) ==
    IF resp.kind = "transport_error" THEN FALSE
    ELSE IF resp.status_code = HTTP_OK THEN TRUE
    ELSE IF resp.status_code = HTTP_BAD_REQUEST THEN TRUE
    ELSE FALSE

(***************************** reminders and scheduler **********************)
\* Largest reminder id the table hands out, and firings recorded.
MaxReminderId == 2
MaxFirings == 3
\* Firings recorded while the callback is replaced.
MaxCallbackFirings == 2

\* A cron expression is the sequence of its whitespace-separated fields, a
\* message the sequence of its words.
CRON_FIELDS == 5
EveryMinute == <<"*", "*", "*", "*", "*">>
NotACron == <<"not", "a", "cron">>
BadMinute == <<"61", "*", "*", "*", "*">>
Crons == {EveryMinute, NotACron}
Messages == {<<"hi">>}
\* What a user types after /reminder_add.
HandlerArgs == {EveryMinute \o <<"hi">>, BadMinute \o <<"hi">>, NotACron \o <<"hi">>}
ReminderIds == 1..MaxReminderId
Callbacks == {"notifier", "other"}

\* str(reminder_id)
Str(n) == IF n = 1 THEN "1" ELSE IF n = 2 THEN "2" ELSE IF n = 3 THEN "3" ELSE "4"

\* The values each cron field accepts (minute, hour, day, month, day of week).
ValidField(i) ==
    IF i = 1 THEN {"*", "0"} ELSE IF i = 2 THEN {"*", "12"} ELSE {"*"}

\* CronTrigger.from_crontab raises ValueError unless there are five fields,
\* each valid for its position.
from_crontab_ok(cron) ==
    /\ Len(cron) = CRON_FIELDS
    /\ \A i \in 1..CRON_FIELDS : cron[i] \in ValidField(i)

\* StorageManager.add_reminder: the row under its new primary key
storage_add_reminder(t, id, u, cron, message) ==
    [k \in DOMAIN t \cup {id} |->
        IF k = id THEN [user_id |-> u, cron |-> cron, message |-> message] ELSE t[k]]

storage_delete_reminder_all_of_owner(t, id) ==
    [table |-> [k \in {j \in DOMAIN t : id \notin DOMAIN t \/ t[j].user_id # t[id].user_id}
                    |-> t[k]],
     ret |-> id \in DOMAIN t]

\* StorageManager.delete_reminder
storage_delete_reminder(t, id) ==
    [table |-> [k \in DOMAIN t \ {id} |-> t[k]], ret |-> id \in DOMAIN t]

\* Reminder.to_dict
to_dict(t, id) ==
    [id |-> id, user_id |-> t[id].user_id, cron |-> t[id].cron, message |-> t[id].message]

RECURSIVE RowsFrom(_, _)
RowsFrom(t, id) ==
    IF id > MaxReminderId THEN <<>>
    ELSE IF id \in DOMAIN t THEN <<to_dict(t, id)>> \o RowsFrom(t, id + 1)
    ELSE RowsFrom(t, id + 1)

\* StorageManager.get_all_reminders: every row, in primary-key order
get_all_reminders(t) == RowsFrom(t, 1)

\* StorageManager.get_reminders: the rows of one user, in primary-key order
get_reminders(t, u) == SelectSeq(get_all_reminders(t), LAMBDA r : r.user_id = u)

\* validator.parse_reminder_add_args
parse_reminder_add_args(args) ==
    IF Len(args) < CRON_FIELDS + 1 THEN [ok |-> FALSE, error |-> "usage"]
    ELSE IF ~from_crontab_ok(SubSeq(args, 1, CRON_FIELDS))
        THEN [ok |-> FALSE, error |-> "invalid_cron"]
    ELSE IF SubSeq(args, CRON_FIELDS + 1, Len(args)) = <<>>
        THEN [ok |-> FALSE, error |-> "message_required"]
    ELSE [ok |-> TRUE, cron |-> SubSeq(args, 1, CRON_FIELDS),
          message |-> SubSeq(args, CRON_FIELDS + 1, Len(args))]

\* scheduler.get_job: is a job registered under this id
get_job(js, job_id) == \E i \in 1..Len(js) : js[i].id = job_id

\* scheduler.remove_job
remove_job(js, job_id) == SelectSeq(js, LAMBDA j : j.id # job_id)

\* scheduler.add_job(..., replace_existing=True)
add_job_no_replace(js, job) == Append(js, job)
add_job(js, job) ==
    IF get_job(js, job.id)
    THEN [i \in 1..Len(js) |-> IF js[i].id = job.id THEN job ELSE js[i]]
    ELSE Append(js, job)

\* ScheduleManager.schedule_job: a cron that does not parse is logged and skipped
schedule_job(js, reminder_id, u, cron, message) ==
    IF from_crontab_ok(cron)
    THEN add_job(js, [id |-> Str(reminder_id), args |-> <<u, message, cron>>])
    ELSE js

\* the loop of start without the except ValueError of schedule_job: the first
\* cron that does not parse ends the load
RECURSIVE schedule_all_stops_at_invalid(_, _)
schedule_all_stops_at_invalid(js, rows) ==
    IF rows = <<>> THEN js
    ELSE IF ~from_crontab_ok(rows[1].cron) THEN js
    ELSE schedule_all_stops_at_invalid(
             schedule_job(js, rows[1].id, rows[1].user_id, rows[1].cron,
                          rows[1].message), Tail(rows))

RECURSIVE schedule_all(_, _)
schedule_all(js, rows) ==
    IF rows = <<>> THEN js
    ELSE schedule_all(schedule_job(js, rows[1].id, rows[1].user_id,
                                   rows[1].cron, rows[1].message), Tail(rows))

\* the loader (on_start) fails
LoaderError == [kind |-> "raise", value |-> <<>>]
LoaderRows(rows) == [kind |-> "return", value |-> rows]

\* ScheduleManager.start
start_no_try(js, run, loaded) ==
    IF loaded.kind = "raise" THEN [jobs |-> js, running |-> run, exit |-> "raise"]
    ELSE [jobs |-> schedule_all(js, loaded.value), running |-> TRUE, exit |-> "return"]
start(js, run, loaded) ==
    [jobs |-> IF loaded.kind = "return" THEN schedule_all(js, loaded.value) ELSE js,
     running |-> TRUE, exit |-> "return"]

\* ScheduleManager.stop: scheduler.shutdown() raises unless the scheduler runs
stop_unguarded(run) ==
    [running |-> FALSE, shutdown_called |-> TRUE,
     exit |-> IF run THEN "return" ELSE "raise"]
stop(run) == [running |-> FALSE, shutdown_called |-> run, exit |-> "return"]

\* ScheduleManager.add_reminder
schedule_add_reminder(js, reminder_id, u, cron, message) ==
    IF ~from_crontab_ok(cron) THEN [jobs |-> js, exit |-> "ValueError"]
    ELSE [jobs |-> schedule_job(js, reminder_id, u, cron, message), exit |-> "return"]

\* ScheduleManager.delete_reminder
\* delete_reminder without the remove_job call
schedule_delete_reminder_keeps_job(js, reminder_id) ==
    [jobs |-> js, ret |-> get_job(js, Str(reminder_id))]
schedule_delete_reminder_always_true(js, reminder_id) ==
    [jobs |-> remove_job(js, Str(reminder_id)), ret |-> TRUE]
schedule_delete_reminder(js, reminder_id) ==
    IF get_job(js, Str(reminder_id))
    THEN [jobs |-> remove_job(js, Str(reminder_id)), ret |-> TRUE]
    ELSE [jobs |-> js, ret |-> FALSE]

\* ScheduleManager.set_callback: the attribute after the assignment
set_callback_keep_first(old, cb) == IF old = "none" THEN cb ELSE old
set_callback(old, cb) == cb

\* the text _job_wrapper hands to the callback
formatted_message(message, cron) ==
    [title |-> "Periodic Reminder", message |-> message, cron |-> cron]

\* What a call of the callback can do: the notifier of the Telegram app
\* catches its own errors, any other callback may raise.
CallbackOutcomes(cb) == IF cb = "notifier" THEN {"ok"} ELSE {"ok", "raise"}

\* ScheduleManager._job_wrapper
job_wrapper_no_try(cb, args, outcome) ==
    [called |-> cb # "none",
     call |-> [callback |-> cb, user_id |-> args[1],
               text |-> formatted_message(args[2], args[3])],
     exit |-> IF cb # "none" /\ outcome = "raise" THEN "raise" ELSE "return"]
job_wrapper_no_guard(cb, args, outcome) ==
    [called |-> cb # "none",
     call |-> [callback |-> cb, user_id |-> args[1],
               text |-> formatted_message(args[2], args[3])],
     exit |-> IF cb = "none" THEN "raise" ELSE "return"]
job_wrapper(cb, args, outcome) ==
    [called |-> cb # "none",
     call |-> [callback |-> cb, user_id |-> args[1],
               text |-> formatted_message(args[2], args[3])],
     exit |-> "return"]

(***************************** conversation history ************************)
MaxHistory == 3

Raised(e) == [kind |-> "raise", value |-> e]

\* The chat messages a history is made of, and the lists a caller saves.
ChatMessages == {"q", "a"}
MessageLists == UNION {[1..n -> ChatMessages] : n \in 0..MaxHistory}
\* max_messages as a caller passes it: negative, zero, and every useful size
MaxMessageArgs == -1..MaxHistory

rotate_messages_keeps_first(messages, max_messages) ==
    IF max_messages <= 0 THEN Raised("ValueError")
    ELSE IF Len(messages) <= max_messages THEN Returned(messages)
    ELSE Returned(SubSeq(messages, 1, max_messages))

\* messages[-max_messages:] when the list is longer than max_messages
rotate_messages(messages, max_messages) ==
    IF max_messages <= 0 THEN Raised("ValueError")
    ELSE IF Len(messages) <= max_messages THEN Returned(messages)
    ELSE Returned(SubSeq(messages, Len(messages) - max_messages + 1, Len(messages)))

\* StorageManager.get_conversation_history on table t
get_conversation_history(t, u) == IF u \in DOMAIN t THEN t[u] ELSE <<>>

\* StorageManager.save_conversation_history: the table afterwards and how
\* the call ends
save_conversation_history(t, u, messages, max_messages) ==
    IF max_messages <= 0
    THEN [table |-> t, exit |-> Raised("ValueError")]
    ELSE [table |-> SetKey(t, u, rotate_messages(messages, max_messages).value),
          exit |-> Returned(None)]

(***************************** diagnostic output ***************************)
\* One call of logger(...) or print(...): the fixed text of the f-string and
\* the values it interpolates (a user id, integers, a text).
Line(msg, user, nums, text) == [msg |-> msg, user |-> user, nums |-> nums, text |-> text]

\* response.text of a non-200 answer
response_text(resp) == resp.json.error

\* str(e) of the error a failed POST raises
TRANSPORT_ERROR_TEXT == "All connection attempts failed"
\* str(e) of the error a failed commit raises
STORAGE_ERROR_TEXT == "database is locked"

refresh_start_lines_with_token(u, td, t) ==
    << Line("Refreshing access token for user", u, <<>>, td["refresh_token"]),
       Line("Token expires_at, current time",
            "", (IF "expires_at" \in DOMAIN td THEN <<td["expires_at"]>> ELSE <<>>) \o <<t>>, ""),
       Line("Sending token refresh request to Google OAuth for user", u, <<>>, "") >>

\* the three lines between the refresh-token test and the POST
refresh_start_lines(u, td, t) ==
    << Line("Refreshing access token for user", u, <<>>, ""),
       Line("Token expires_at, current time",
            "", (IF "expires_at" \in DOMAIN td THEN <<td["expires_at"]>> ELSE <<>>) \o <<t>>, ""),
       Line("Sending token refresh request to Google OAuth for user", u, <<>>, "") >>

\* str(e) of the exception refresh_access_token raises, "" when it returns
refresh_error_text(td, resp, committed) ==
    IF ~has_refresh_token(td) THEN "No refresh token available"
    ELSE IF refresh_status(resp) = "TransportError" THEN TRANSPORT_ERROR_TEXT
    ELSE IF refresh_status(resp) = "ValueError" THEN response_text(resp)
    ELSE IF refresh_status(resp) = "KeyError" THEN "'access_token'"
    ELSE IF ~committed THEN STORAGE_ERROR_TEXT
    ELSE ""

\* the lines refresh_access_token logs, in order, up to its return or raise
refresh_access_token_log(u, td, t, resp, committed) ==
    IF ~has_refresh_token(td)
    THEN << Line("No refresh token available for user", u, <<>>, "") >>
    ELSE refresh_start_lines(u, td, t) \o
         (IF refresh_status(resp) = "TransportError" THEN <<>>
          ELSE IF refresh_status(resp) = "ValueError"
          THEN << Line("Token refresh failed for user", u, <<resp.status_code>>,
                       response_text(resp)) >>
          ELSE << Line("Token refresh successful for user", u, <<>>, "") >> \o
               (IF refresh_status(resp) = "KeyError" THEN <<>>
                ELSE (IF "refresh_token" \in DOMAIN resp.json
                      THEN << Line("New refresh token received for user", u, <<>>, "") >>
                      ELSE <<>>) \o
                     << Line("Saving refreshed token to database for user", u, <<>>, "") >> \o
                     (IF committed
                      THEN << Line("Token refreshed and saved successfully for user. New expires_at",
                                   u, <<apply_refresh(td, resp.json, t)["expires_at"]>>, "") >>
                      ELSE <<>>)))

\* the lines get_valid_token logs for the stored record td at time t
get_valid_token_log(u, td, t, resp, committed) ==
    << Line("Getting valid token for user", u, <<>>, "") >> \o
    (IF ~TruthyDict(td)
     THEN << Line("No token found in database for user", u, <<>>, "") >>
     ELSE LET expires_at == Get(td, "expires_at", 0)
              time_until_expiry == expires_at - t
          IN  IF expires_at # 0
              THEN << Line("Token for user expires in seconds", u, <<time_until_expiry>>, "") >> \o
                   (IF needs_refresh(expires_at, t)
                    THEN << Line("Token for user is expired or expiring soon, refreshing",
                                 u, <<>>, "") >> \o
                         refresh_access_token_log(u, td, t, resp, committed) \o
                         (IF refresh_error_text(td, resp, committed) = "" THEN <<>>
                          ELSE << Line("Failed to refresh token for user", u, <<>>,
                                       refresh_error_text(td, resp, committed)) >> \o
                               (IF time_until_expiry < 0
                                THEN << Line("Token is definitely expired and refresh failed. Returning None.",
                                             "", <<>>, "") >>
                                ELSE << Line("Refresh failed but token might still be marginally valid. Returning old token.",
                                             "", <<time_until_expiry>>, "") >>))
                    ELSE << Line("Token for user is still valid", u, <<>>, "") >>)
              ELSE << Line("No expires_at timestamp in token for user, assuming valid",
                           u, <<>>, "") >>)

\* the lines revoke_google_token logs
revoke_google_token_log(td, resp) ==
    IF ~has_access_token(td)
    THEN << Line("No access token to revoke", "", <<>>, "") >>
    ELSE << Line("Revoking Google OAuth token", "", <<>>, "") >> \o
         (IF resp.kind = "transport_error"
          THEN << Line("Error revoking token", "", <<>>, TRANSPORT_ERROR_TEXT) >>
          ELSE IF resp.status_code = HTTP_OK
          THEN << Line("Token revoked successfully", "", <<>>, "") >>
          ELSE IF resp.status_code = HTTP_BAD_REQUEST
          THEN << Line("Token was already invalid or not revocable (400), considering revoked",
                       "", <<>>, "") >>
          ELSE << Line("Token revocation failed", "", <<resp.status_code>>,
                       response_text(resp)) >>)

\* the lines core.user_tokens.delete_user_token logs
delete_user_token_log(u, td, resp, success) ==
    << Line("Deleting token for user", u, <<>>, "") >> \o
    (IF TruthyDict(td) THEN revoke_google_token_log(td, resp) ELSE <<>>) \o
    (IF success
     THEN << Line("Token deleted successfully for user", u, <<>>, "") >>
     ELSE << Line("No token found to delete for user", u, <<>>, "") >>)

\* what core.user_tokens.save_user_token prints
save_user_token_log(td) ==
    IF "refresh_token" \notin DOMAIN td
    THEN << Line("[WARNING] Saving token WITHOUT refresh_token!", "", <<>>, "") >>
    ELSE <<>>

\* Token values of the two runs that are compared.
LogAccessTokens == {"A0", "B0"}
LogRefreshTokens == {"", "R0", "S0"}

\* Stored records the credential operations can find at time t.
LogTokens(t) ==
    LET b0 == {[access_token |-> a, scope |-> "cal"] : a \in LogAccessTokens}
        b1 == b0 \cup {SetKey(b, "refresh_token", r) : b \in b0, r \in LogRefreshTokens}
    IN  b1 \cup {SetKey(b, "expires_at", e) : b \in b1,
                                               e \in {0, t - 1, t + 1, t + LOOKAHEAD}}

\* Answers of the token endpoint, with two values for each token it issues.
LogTokenResponses ==
    LET b0 == {[access_token |-> a] : a \in {"A1", "B1"}}
        b1 == b0 \cup {SetKey(b, "expires_in", e) : b \in b0, e \in {LOOKAHEAD}}
        b2 == b1 \cup {SetKey(b, "refresh_token", r) : b \in b1, r \in {"R1", "S1"}}
    IN  {HttpResponse(HTTP_OK, b) : b \in b2}
            \cup {HttpResponse(st, ErrorBody) : st \in {HTTP_BAD_REQUEST, HTTP_SERVER_ERROR}}
            \cup {TransportError}

(***************************** retry transport *****************************)
MAX_RETRIES == 3
HTTP_TOO_MANY_REQUESTS == 429

Response(s) == [kind |-> "response", status_code |-> s]
Exception(e) == [kind |-> "exception", class |-> e]

\* What one call of the underlying transport can do: answer with a status,
\* or raise an httpx transport error.
TransportOutcomes ==
    {Response(st) : st \in {HTTP_OK, HTTP_BAD_REQUEST, HTTP_TOO_MANY_REQUESTS,
                            HTTP_SERVER_ERROR}}
        \cup {Exception(e) : e \in {"ConnectError", "TimeoutException", "ReadError"}}

\* One pass of the loop of handle_async_request, attempt counted from 0:
\* return the response, raise, or sleep and go round again.
retry_decision(max_retries, attempt, outcome) ==
    IF outcome.kind = "response"
    THEN IF outcome.status_code < HTTP_SERVER_ERROR
              /\ outcome.status_code # HTTP_TOO_MANY_REQUESTS
         THEN "return"
         ELSE IF attempt < max_retries - 1 THEN "retry" ELSE "return"
    ELSE IF outcome.class \in {"ConnectError", "TimeoutException"}
         THEN IF attempt < max_retries - 1 THEN "retry" ELSE "raise"
         ELSE "raise"

(***************************** state ***************************************)
IdleLocal ==
    [op |-> "none", user_id |-> "none", token_data |-> None,
     current_time |-> 0, time_until_expiry |-> 0]

IdleObs ==
    [refresh_calls |-> 0, network_calls |-> 0, refresh_exit |-> "not_called",
     fetched |-> None, entry_store |-> <<>>, refresh_time |-> 0,
     response |-> NoResponse,
     revoke_calls |-> 0, revoke_exit |-> "not_called", revoke_ret |-> FALSE,
     presented |-> "none"]

IdleTask ==
    [op |-> "none", entry |-> "none", user_id |-> "none", cron |-> <<>>,
     message |-> <<>>, reminder_id |-> 0, wrote |-> FALSE, registered |-> FALSE,
     removed |-> FALSE, exit |-> "pending"]

\* No ScheduleManager call since construction.
NoOp ==
    [op |-> "none", repeated |-> FALSE, id |-> "none", exit |-> "none",
     jobs_before |-> <<>>, running_before |-> FALSE, loaded |-> LoaderError,
     shutdown_called |-> FALSE, callback |-> "none", outcome |-> "none"]

\* No request in the retry transport.
IdleRetry == [state |-> "idle", attempt |-> 0, outcomes |-> <<>>]

\* No StorageManager call yet.
NoCall == [op |-> "none"]

\* No credential operation logged yet.
NoLog == [op |-> "none", differ |-> FALSE, log |-> <<>>, shadow |-> <<>>]

Init ==
    /\ now = StartTime
    /\ ticks = 0
    /\ ops = 0
    /\ user_tokens = <<>>
    /\ pc = [c \in Clients |-> "idle"]
    /\ local = [c \in Clients |-> IdleLocal]
    /\ result = [c \in Clients |-> Pending]
    /\ obs = [c \in Clients |-> IdleObs]
    /\ reminders = <<>>
    /\ jobs = <<>>
    /\ running = FALSE
    /\ callback = "none"
    /\ registered = "none"
    /\ fired = <<>>
    /\ calls = <<>>
    /\ spc = [c \in Clients |-> "idle"]
    /\ task = [c \in Clients |-> IdleTask]
    /\ last_op = NoOp
    /\ retry = IdleRetry
    /\ conversation_history = <<>>
    /\ last_call = NoCall
    /\ log_run = NoLog

\* time passes between two steps
Tick ==
    /\ ticks < MaxTicks
    /\ \E d \in TickSteps : now' = now + d
    /\ ticks' = ticks + 1
    /\ UNCHANGED <<ops, user_tokens, pc, local, result, obs>>
    /\ UNCHANGED sched_vars
    /\ UNCHANGED util_vars

\* core.user_tokens.save_user_token: the login callback stores a token
SaveUserToken(c, u) ==
    /\ pc[c] = "idle"
    /\ ops < MaxOps
    /\ \E td \in LoginTokens(now) : user_tokens' = save_user_token(user_tokens, u, td)
    /\ ops' = ops + 1
    /\ UNCHANGED <<now, ticks, pc, local, result, obs>>
    /\ UNCHANGED sched_vars
    /\ UNCHANGED util_vars

\* get_valid_token up to its first suspension: the fetch, the staleness test
\* and, when the record is stale, refresh_access_token up to the POST
GetValidToken(c, u) ==
    /\ pc[c] = "idle"
    /\ ops < MaxOps
    /\ ops' = ops + 1
    /\ LET token_data == get_user_token(user_tokens, u)
           expires_at == Get(token_data, "expires_at", 0)
           current_time == now
           time_until_expiry == expires_at - current_time
           lcl == [op |-> "get_valid_token", user_id |-> u, token_data |-> token_data,
                   current_time |-> current_time, time_until_expiry |-> 0]
           ob == [IdleObs EXCEPT !.fetched = token_data, !.entry_store = user_tokens]
       IN  IF ~TruthyDict(token_data)
           THEN /\ pc' = [pc EXCEPT ![c] = "done"]
                /\ result' = [result EXCEPT ![c] = Returned(None)]
                /\ local' = [local EXCEPT ![c] = lcl]
                /\ obs' = [obs EXCEPT ![c] = ob]
           ELSE IF expires_at # 0 /\ needs_refresh(expires_at, current_time)
           THEN IF ~has_refresh_token(token_data)
                THEN /\ pc' = [pc EXCEPT ![c] = "done"]
                     /\ result' = [result EXCEPT ![c] =
                            Returned(on_refresh_failure(time_until_expiry, token_data))]
                     /\ local' = [local EXCEPT ![c] =
                            [lcl EXCEPT !.time_until_expiry = time_until_expiry]]
                     /\ obs' = [obs EXCEPT ![c] =
                            [ob EXCEPT !.refresh_calls = 1, !.refresh_exit = "ValueError"]]
                ELSE /\ pc' = [pc EXCEPT ![c] = "refresh_post"]
                     /\ result' = [result EXCEPT ![c] = Pending]
                     /\ local' = [local EXCEPT ![c] =
                            [lcl EXCEPT !.time_until_expiry = time_until_expiry]]
                     /\ obs' = [obs EXCEPT ![c] =
                            [ob EXCEPT !.refresh_calls = 1, !.network_calls = 1]]
           ELSE /\ pc' = [pc EXCEPT ![c] = "done"]
                /\ result' = [result EXCEPT ![c] = Returned(token_data)]
                /\ local' = [local EXCEPT ![c] =
                       [lcl EXCEPT !.time_until_expiry =
                            IF expires_at # 0 THEN time_until_expiry ELSE 0]]
                /\ obs' = [obs EXCEPT ![c] = ob]
    /\ UNCHANGED <<now, ticks, user_tokens>>
    /\ UNCHANGED sched_vars
    /\ UNCHANGED util_vars

\* the token endpoint answers (or the request fails): refresh_access_token from
\* the POST to the save, or to the exception that get_valid_token catches
RefreshResponse(c) ==
    /\ pc[c] = "refresh_post"
    /\ \E resp \in TokenEndpointOutcomes :
         LET status == refresh_status(resp)
             ob == [obs[c] EXCEPT !.response = resp, !.refresh_time = now]
         IN  IF status = "ok"
             THEN /\ local' = [local EXCEPT ![c].token_data =
                         apply_refresh(local[c].token_data, resp.json, now)]
                  /\ pc' = [pc EXCEPT ![c] = "refresh_save"]
                  /\ obs' = [obs EXCEPT ![c] = ob]
                  /\ UNCHANGED result
             ELSE /\ pc' = [pc EXCEPT ![c] = "done"]
                  /\ result' = [result EXCEPT ![c] =
                         Returned(on_refresh_failure(local[c].time_until_expiry,
                                                     local[c].token_data))]
                  /\ obs' = [obs EXCEPT ![c] = [ob EXCEPT !.refresh_exit = status]]
                  /\ UNCHANGED local
    /\ UNCHANGED <<now, ticks, ops, user_tokens>>
    /\ UNCHANGED sched_vars
    /\ UNCHANGED util_vars

\* storage_manager.save_user_token commits (or fails): refresh_access_token
\* returns token_data and get_valid_token returns it, or the failure is caught
RefreshSave(c) ==
    /\ pc[c] = "refresh_save"
    /\ \E committed \in BOOLEAN :
         IF committed
         THEN /\ user_tokens' = save_user_token(user_tokens, local[c].user_id,
                                                local[c].token_data)
              /\ result' = [result EXCEPT ![c] = Returned(local[c].token_data)]
              /\ obs' = [obs EXCEPT ![c].refresh_exit = "returned"]
         ELSE /\ result' = [result EXCEPT ![c] =
                     Returned(on_refresh_failure(local[c].time_until_expiry,
                                                 local[c].token_data))]
              /\ obs' = [obs EXCEPT ![c].refresh_exit = "StorageError"]
              /\ UNCHANGED user_tokens
    /\ pc' = [pc EXCEPT ![c] = "done"]
    /\ UNCHANGED <<now, ticks, ops, local>>
    /\ UNCHANGED sched_vars
    /\ UNCHANGED util_vars

\* core.auth.is_user_authenticated
IsUserAuthenticated(c, u) ==
    /\ pc[c] = "idle"
    /\ ops < MaxOps
    /\ ops' = ops + 1
    /\ LET token_data == get_user_token(user_tokens, u)
       IN  /\ local' = [local EXCEPT ![c] =
                  [IdleLocal EXCEPT !.op = "is_user_authenticated", !.user_id = u,
                                    !.token_data = token_data, !.current_time = now]]
           /\ obs' = [obs EXCEPT ![c] =
                  [IdleObs EXCEPT !.fetched = token_data, !.entry_store = user_tokens]]
           /\ result' = [result EXCEPT ![c] =
                  Returned(IF ~TruthyDict(token_data) THEN FALSE
                           ELSE is_token_valid(token_data, now))]
    /\ pc' = [pc EXCEPT ![c] = "done"]
    /\ UNCHANGED <<now, ticks, user_tokens>>
    /\ UNCHANGED sched_vars
    /\ UNCHANGED util_vars

\* the caller takes the result; the client is free for its next call
Return(c) ==
    /\ pc[c] = "done"
    /\ pc' = [pc EXCEPT ![c] = "idle"]
    /\ local' = [local EXCEPT ![c] = IdleLocal]
    /\ result' = [result EXCEPT ![c] = Pending]
    /\ obs' = [obs EXCEPT ![c] = IdleObs]
    /\ UNCHANGED <<now, ticks, ops, user_tokens>>
    /\ UNCHANGED sched_vars
    /\ UNCHANGED util_vars

\* a caller of save_user_token stores any token dictionary
StoreToken(c, u) ==
    /\ pc[c] = "idle"
    /\ ops < MaxOps
    /\ \E td \in LoginTokens(now) \cup DegradedTokens :
         user_tokens' = save_user_token(user_tokens, u, td)
    /\ ops' = ops + 1
    /\ UNCHANGED <<now, ticks, pc, local, result, obs>>
    /\ UNCHANGED sched_vars
    /\ UNCHANGED util_vars

\* delete_user_token up to its next suspension: the fetch and, when a record
\* exists, revoke_google_token up to its POST (or to its early return)
DeleteUserToken(c, u) ==
    /\ pc[c] = "idle"
    /\ ops < MaxOps
    /\ ops' = ops + 1
    /\ LET token_data == get_user_token(user_tokens, u)
           ob == [IdleObs EXCEPT !.fetched = token_data, !.entry_store = user_tokens]
       IN  /\ local' = [local EXCEPT ![c] =
                  [IdleLocal EXCEPT !.op = "delete_user_token", !.user_id = u,
                                    !.token_data = token_data]]
           /\ IF ~TruthyDict(token_data)
              THEN /\ pc' = [pc EXCEPT ![c] = "delete_row"]
                   /\ obs' = [obs EXCEPT ![c] = ob]
              ELSE IF ~has_access_token(token_data)
              THEN /\ pc' = [pc EXCEPT ![c] = "delete_row"]
                   /\ obs' = [obs EXCEPT ![c] =
                          [ob EXCEPT !.revoke_calls = 1, !.revoke_exit = "return",
                                     !.revoke_ret = FALSE]]
              ELSE /\ pc' = [pc EXCEPT ![c] = "revoke_post"]
                   /\ obs' = [obs EXCEPT ![c] =
                          [ob EXCEPT !.revoke_calls = 1, !.network_calls = 1]]
    /\ result' = [result EXCEPT ![c] = Pending]
    /\ UNCHANGED <<now, ticks, user_tokens>>
    /\ UNCHANGED sched_vars
    /\ UNCHANGED util_vars

\* the revoke endpoint answers (or the request fails): revoke_google_token
\* returns and delete_user_token goes on to the storage delete
RevokeResponse(c) ==
    /\ pc[c] = "revoke_post"
    /\ \E resp \in RevokeEndpointOutcomes :
         obs' = [obs EXCEPT ![c] =
                    [obs[c] EXCEPT !.response = resp, !.revoke_exit = "return",
                                   !.revoke_ret = revoke_result(resp)]]
    /\ pc' = [pc EXCEPT ![c] = "delete_row"]
    /\ UNCHANGED <<now, ticks, ops, user_tokens, local, result>>
    /\ UNCHANGED sched_vars
    /\ UNCHANGED util_vars

\* storage_manager.delete_user_token commits and delete_user_token returns
DeleteRow(c) ==
    /\ pc[c] = "delete_row"
    /\ LET d == delete_user_token(user_tokens, local[c].user_id)
       IN  /\ user_tokens' = d.table
           /\ result' = [result EXCEPT ![c] = Returned(d.ret)]
    /\ pc' = [pc EXCEPT ![c] = "done"]
    /\ UNCHANGED <<now, ticks, ops, local, obs>>
    /\ UNCHANGED sched_vars
    /\ UNCHANGED util_vars

\* list_upcoming_events / create_event after get_valid_token has returned:
\* the access token of the returned record goes to the calendar API
PresentToProvider(c) ==
    /\ pc[c] = "done"
    /\ local[c].op = "get_valid_token"
    /\ obs[c].presented = "none"
    /\ TruthyDict(result[c].value)
    /\ has_access_token(result[c].value)
    /\ obs' = [obs EXCEPT ![c].presented = result[c].value["access_token"]]
    /\ UNCHANGED <<now, ticks, ops, user_tokens, pc, local, result>>
    /\ UNCHANGED sched_vars
    /\ UNCHANGED util_vars

\* AiAgentAdapter.create_calendar_event and handle_confirmation_callback: the
\* record is read from the table and its access token goes to the calendar API
DirectCreateEvent(c, u) ==
    /\ pc[c] = "idle"
    /\ ops < MaxOps
    /\ ops' = ops + 1
    /\ LET token_data == get_user_token(user_tokens, u)
           usable == TruthyDict(token_data) /\ has_access_token(token_data)
       IN  /\ local' = [local EXCEPT ![c] =
                  [IdleLocal EXCEPT !.op = "create_calendar_event", !.user_id = u,
                                    !.token_data = token_data, !.current_time = now]]
           /\ obs' = [obs EXCEPT ![c] =
                  [IdleObs EXCEPT !.fetched = token_data, !.entry_store = user_tokens,
                                  !.presented = IF usable THEN token_data["access_token"]
                                                ELSE "none"]]
           /\ result' = [result EXCEPT ![c] =
                  Returned(IF usable THEN "event" ELSE "Failed to create event")]
    /\ pc' = [pc EXCEPT ![c] = "done"]
    /\ UNCHANGED <<now, ticks, user_tokens>>
    /\ UNCHANGED sched_vars
    /\ UNCHANGED util_vars

Next ==
    \/ Tick
    \/ \E c \in SeqClients, u \in Users : SaveUserToken(c, u)
    \/ \E c \in SeqClients, u \in Users : GetValidToken(c, u)
    \/ \E c \in SeqClients : RefreshResponse(c)
    \/ \E c \in SeqClients : RefreshSave(c)
    \/ \E c \in SeqClients, u \in Users : IsUserAuthenticated(c, u)
    \/ \E c \in SeqClients : Return(c)

Spec == Init /\ [][Next]_vars

\* the callers of the calendar API obtain an access token
CallerNext ==
    \/ Tick
    \/ \E c \in SeqClients, u \in Users : SaveUserToken(c, u)
    \/ \E c \in SeqClients, u \in Users : GetValidToken(c, u)
    \/ \E c \in SeqClients : RefreshResponse(c)
    \/ \E c \in SeqClients : RefreshSave(c)
    \/ \E c \in SeqClients : PresentToProvider(c)
    \/ \E c \in SeqClients, u \in Users : DirectCreateEvent(c, u)
    \/ \E c \in SeqClients : Return(c)

CallerSpec == Init /\ [][CallerNext]_vars

\* handle_logout: the Telegram id is resolved to a user id, and the row is
\* deleted by storage_manager.delete_user_token; the reply depends on its result
LogoutReply(mapped, success) ==
    IF ~mapped THEN "Not Logged In"
    ELSE IF success THEN "Logged Out" ELSE "Logout Failed"

HandleLogout(c, u) ==
    /\ pc[c] = "idle"
    /\ ops < MaxOps
    /\ ops' = ops + 1
    /\ \E mapped \in BOOLEAN :
         LET d == delete_user_token(user_tokens, u) IN
           /\ user_tokens' = IF mapped THEN d.table ELSE user_tokens
           /\ local' = [local EXCEPT ![c] =
                  [IdleLocal EXCEPT !.op = "handle_logout",
                                    !.user_id = IF mapped THEN u ELSE "none"]]
           /\ obs' = [obs EXCEPT ![c] = [IdleObs EXCEPT !.entry_store = user_tokens]]
           /\ result' = [result EXCEPT ![c] =
                  Returned([reply |-> LogoutReply(mapped, d.ret)])]
    /\ pc' = [pc EXCEPT ![c] = "done"]
    /\ UNCHANGED <<now, ticks>>
    /\ UNCHANGED sched_vars
    /\ UNCHANGED util_vars

\* logout and account removal: tokens are stored and deleted
DeleteNext ==
    \/ \E c \in SeqClients, u \in Users : StoreToken(c, u)
    \/ \E c \in SeqClients, u \in Users : DeleteUserToken(c, u)
    \/ \E c \in SeqClients : RevokeResponse(c)
    \/ \E c \in SeqClients : DeleteRow(c)
    \/ \E c \in SeqClients : Return(c)

DeleteSpec == Init /\ [][DeleteNext]_vars

\* credentials are stored, deleted by delete_user_token and by /logout
LogoutNext ==
    \/ \E c \in SeqClients, u \in Users : StoreToken(c, u)
    \/ \E c \in SeqClients, u \in Users : DeleteUserToken(c, u)
    \/ \E c \in SeqClients : RevokeResponse(c)
    \/ \E c \in SeqClients : DeleteRow(c)
    \/ \E c \in SeqClients, u \in Users : HandleLogout(c, u)
    \/ \E c \in SeqClients : Return(c)

LogoutSpec == Init /\ [][LogoutNext]_vars

(***************************** reminder actions ****************************)
\* A ScheduleManager call, with the state it found.
Op(name, id, exit, loaded, shutdown_called, outcome) ==
    [op |-> name, repeated |-> (name = last_op.op), id |-> id, exit |-> exit,
     jobs_before |-> jobs, running_before |-> running, loaded |-> loaded,
     shutdown_called |-> shutdown_called, callback |-> callback, outcome |-> outcome]

\* set_callback
SetCallback(cb) ==
    /\ registered # cb
    /\ callback' = set_callback(callback, cb)
    /\ registered' = cb
    /\ UNCHANGED <<reminders, jobs, running, fired, calls, spc, task, last_op>>
    /\ UNCHANGED cred_vars
    /\ UNCHANGED util_vars

\* start(): the loader returns the stored rows or raises
Start ==
    /\ \E loaded \in {LoaderRows(get_all_reminders(reminders)), LoaderError} :
         LET r == start(jobs, running, loaded) IN
           /\ jobs' = r.jobs
           /\ running' = r.running
           /\ last_op' = Op("start", "none", r.exit, loaded, FALSE, "none")
    /\ UNCHANGED <<reminders, callback, registered, fired, calls, spc, task>>
    /\ UNCHANGED cred_vars
    /\ UNCHANGED util_vars

\* stop(): a shutdown may drop the jobs of the in-memory job store
Stop ==
    /\ LET r == stop(running) IN
         /\ running' = r.running
         /\ jobs' \in IF r.shutdown_called THEN {jobs, <<>>} ELSE {jobs}
         /\ last_op' = Op("stop", "none", r.exit, LoaderError, r.shutdown_called, "none")
    /\ UNCHANGED <<reminders, callback, registered, fired, calls, spc, task>>
    /\ UNCHANGED cred_vars
    /\ UNCHANGED util_vars

\* handle_reminder_add up to the storage write of add_reminder
HandlerAdd(c, u, args) ==
    /\ spc[c] = "idle"
    /\ LET parsed == parse_reminder_add_args(args)
           t == [IdleTask EXCEPT !.op = "add", !.entry = "handler", !.user_id = u]
       IN IF ~parsed.ok
          THEN /\ task' = [task EXCEPT ![c] =
                     [t EXCEPT !.cron = IF Len(args) < CRON_FIELDS THEN args
                                         ELSE SubSeq(args, 1, CRON_FIELDS),
                               !.exit = "TelegramValidationError"]]
               /\ spc' = [spc EXCEPT ![c] = "done"]
               /\ UNCHANGED reminders
          ELSE \E id \in ReminderIds \ DOMAIN reminders :
               /\ reminders' = storage_add_reminder(reminders, id, u, parsed.cron,
                                                    parsed.message)
               /\ task' = [task EXCEPT ![c] =
                     [t EXCEPT !.cron = parsed.cron, !.message = parsed.message,
                               !.reminder_id = id, !.wrote = TRUE]]
               /\ spc' = [spc EXCEPT ![c] = "register"]
    /\ UNCHANGED <<jobs, running, callback, registered, fired, calls, last_op>>
    /\ UNCHANGED cred_vars
    /\ UNCHANGED util_vars

\* AiAgentAdapter.add_reminder up to its storage write
AdapterAdd(c, u, cron, message) ==
    /\ spc[c] = "idle"
    /\ \E id \in ReminderIds \ DOMAIN reminders :
         /\ reminders' = storage_add_reminder(reminders, id, u, cron, message)
         /\ task' = [task EXCEPT ![c] =
               [IdleTask EXCEPT !.op = "add", !.entry = "adapter", !.user_id = u,
                                !.cron = cron, !.message = message,
                                !.reminder_id = id, !.wrote = TRUE]]
    /\ spc' = [spc EXCEPT ![c] = "register"]
    /\ UNCHANGED <<jobs, running, callback, registered, fired, calls, last_op>>
    /\ UNCHANGED cred_vars
    /\ UNCHANGED util_vars

\* schedule_manager.add_reminder, the second step of both add paths
Register(c) ==
    /\ spc[c] = "register"
    /\ LET t == task[c]
           r == schedule_add_reminder(jobs, t.reminder_id, t.user_id, t.cron, t.message)
       IN /\ jobs' = r.jobs
          /\ task' = [task EXCEPT ![c] =
                [t EXCEPT !.registered = (r.exit = "return"), !.exit = r.exit]]
          /\ last_op' = Op("add_reminder", Str(t.reminder_id), r.exit, LoaderError,
                           FALSE, "none")
    /\ spc' = [spc EXCEPT ![c] = "done"]
    /\ UNCHANGED <<reminders, running, callback, registered, fired, calls>>
    /\ UNCHANGED cred_vars
    /\ UNCHANGED util_vars

\* handle_reminder_del up to schedule_manager.delete_reminder
HandlerDelete(c, u, id) ==
    /\ spc[c] = "idle"
    /\ LET r == schedule_delete_reminder(jobs, id) IN
         /\ jobs' = r.jobs
         /\ task' = [task EXCEPT ![c] =
               [IdleTask EXCEPT !.op = "delete", !.entry = "handler", !.user_id = u,
                                !.reminder_id = id, !.removed = r.ret]]
         /\ last_op' = Op("delete_reminder", Str(id), "return", LoaderError, FALSE,
                          IF r.ret THEN "True" ELSE "False")
    /\ spc' = [spc EXCEPT ![c] = "delete_row"]
    /\ UNCHANGED <<reminders, running, callback, registered, fired, calls>>
    /\ UNCHANGED cred_vars
    /\ UNCHANGED util_vars

\* storage_manager.delete_reminder, the second step of delete_reminder
DeleteReminderRow(c) ==
    /\ spc[c] = "delete_row"
    /\ LET r == storage_delete_reminder(reminders, task[c].reminder_id) IN
         /\ reminders' = r.table
         /\ task' = [task EXCEPT ![c].wrote = r.ret, ![c].exit = "return"]
    /\ spc' = [spc EXCEPT ![c] = "done"]
    /\ UNCHANGED <<jobs, running, callback, registered, fired, calls, last_op>>
    /\ UNCHANGED cred_vars
    /\ UNCHANGED util_vars

\* the handler replies; the client is free for its next request
Reply(c) ==
    /\ spc[c] = "done"
    /\ spc' = [spc EXCEPT ![c] = "idle"]
    /\ task' = [task EXCEPT ![c] = IdleTask]
    /\ UNCHANGED <<reminders, jobs, running, callback, registered, fired, calls, last_op>>
    /\ UNCHANGED cred_vars
    /\ UNCHANGED util_vars

\* the running scheduler fires the i-th job: _job_wrapper runs with the job's args
Fire(i) ==
    /\ running
    /\ i \in 1..Len(jobs)
    /\ Len(fired) < MaxFirings
    /\ \E outcome \in IF callback = "none" THEN {"ok"} ELSE CallbackOutcomes(callback) :
         LET r == job_wrapper(callback, jobs[i].args, outcome) IN
           /\ calls' = IF r.called THEN Append(calls, r.call) ELSE calls
           /\ fired' = Append(fired, [id |-> jobs[i].id,
                                      outcome |-> IF r.called THEN outcome ELSE "dropped"])
           /\ last_op' = Op("fire", jobs[i].id, r.exit, LoaderError, FALSE, outcome)
    /\ UNCHANGED <<reminders, jobs, running, callback, registered, spc, task>>
    /\ UNCHANGED cred_vars
    /\ UNCHANGED util_vars

\* reminders are added and deleted while the scheduler starts and stops: one
\* user works through the Telegram commands, another through the agent
SchedNext ==
    \/ Start
    \/ Stop
    \/ \E c \in SeqClients, args \in HandlerArgs : HandlerAdd(c, "u1", args)
    \/ \E c \in SeqClients, cron \in Crons, m \in Messages :
         AdapterAdd(c, "u2", cron, m)
    \/ \E c \in SeqClients, id \in ReminderIds : HandlerDelete(c, "u1", id)
    \/ \E c \in SeqClients : Register(c)
    \/ \E c \in SeqClients : DeleteReminderRow(c)
    \/ \E c \in SeqClients : Reply(c)

SchedSpec == Init /\ [][SchedNext]_vars

\* registered jobs fire before and after a callback is set
FireNext ==
    \/ SetCallback("other")
    \/ Start
    \/ \E c \in SeqClients, m \in Messages :
         AdapterAdd(c, "u1", EveryMinute, m)
    \/ \E c \in SeqClients : Register(c)
    \/ \E c \in SeqClients : Reply(c)
    \/ \E i \in 1..MaxReminderId : Fire(i)

FireSpec == Init /\ [][FireNext]_vars

\* jobs fire while the callback is registered and replaced
CallbackNext ==
    \/ \E cb \in Callbacks : SetCallback(cb)
    \/ Start
    \/ \E c \in SeqClients, m \in Messages :
         AdapterAdd(c, "u2", EveryMinute, m)
    \/ \E c \in SeqClients : Register(c)
    \/ \E c \in SeqClients : Reply(c)
    \/ \E i \in 1..MaxReminderId : Len(fired) < MaxCallbackFirings /\ Fire(i)

CallbackSpec == Init /\ [][CallbackNext]_vars

\* two requests at a time add and delete reminders
ReminderRaceNext ==
    \/ \E c \in Clients, u \in Users, args \in HandlerArgs : HandlerAdd(c, u, args)
    \/ \E c \in Clients, u \in Users, cron \in Crons, m \in Messages :
         AdapterAdd(c, u, cron, m)
    \/ \E c \in Clients : Register(c)
    \/ \E c \in Clients, u \in Users, id \in ReminderIds : HandlerDelete(c, u, id)
    \/ \E c \in Clients : DeleteReminderRow(c)
    \/ \E c \in Clients : Reply(c)

ReminderRaceSpec == Init /\ [][ReminderRaceNext]_vars

(***************************** conversation history actions *****************)
\* the users whose history has been saved before this call
SavedBefore == IF last_call.op = "none" THEN {} ELSE last_call.saved

SaveConversationHistory(u, messages, max_messages) ==
    LET r == save_conversation_history(conversation_history, u, messages, max_messages) IN
    /\ conversation_history' = r.table
    /\ last_call' = [op |-> "save_conversation_history", user_id |-> u,
                     messages |-> messages, max_messages |-> max_messages,
                     exit |-> r.exit, table_before |-> conversation_history,
                     saved |-> IF r.exit.kind = "return" THEN SavedBefore \cup {u}
                               ELSE SavedBefore]
    /\ UNCHANGED <<retry, log_run>>
    /\ UNCHANGED cred_vars
    /\ UNCHANGED sched_vars

GetConversationHistory(u) ==
    /\ last_call' = [op |-> "get_conversation_history", user_id |-> u,
                     messages |-> <<>>, max_messages |-> 0,
                     exit |-> Returned(get_conversation_history(conversation_history, u)),
                     table_before |-> conversation_history,
                     saved |-> SavedBefore]
    /\ UNCHANGED <<retry, conversation_history, log_run>>
    /\ UNCHANGED cred_vars
    /\ UNCHANGED sched_vars

\* One user chats; the history of both users is read.
HistoryNext ==
    \/ \E messages \in MessageLists, max_messages \in MaxMessageArgs :
          SaveConversationHistory("u1", messages, max_messages)
    \/ \E u \in Users : GetConversationHistory(u)

HistorySpec == Init /\ [][HistoryNext]_vars

(***************************** token store calls ****************************)
\* What the calls so far say each user's record is: the dictionary of the
\* latest save, None before the first save and after a delete; and the users
\* whose latest save replaced a different record.
LatestBefore == IF last_call.op = "none" THEN [u \in Users |-> None] ELSE last_call.latest
ResavedBefore == IF last_call.op = "none" THEN {} ELSE last_call.resaved

StorageSaveUserToken(u, td) ==
    /\ user_tokens' = save_user_token(user_tokens, u, td)
    /\ last_call' = [op |-> "save_user_token", user_id |-> u, ret |-> None,
                     latest |-> [LatestBefore EXCEPT ![u] = td],
                     resaved |-> IF LatestBefore[u] \notin {None, td}
                                 THEN ResavedBefore \cup {u}
                                 ELSE ResavedBefore \ {u}]
    /\ UNCHANGED <<now, ticks, ops, pc, local, result, obs>>
    /\ UNCHANGED <<retry, conversation_history, log_run>>
    /\ UNCHANGED sched_vars

StorageGetUserToken(u) ==
    /\ last_call' = [op |-> "get_user_token", user_id |-> u,
                     ret |-> get_user_token(user_tokens, u),
                     latest |-> LatestBefore, resaved |-> ResavedBefore]
    /\ UNCHANGED <<retry, conversation_history, log_run>>
    /\ UNCHANGED cred_vars
    /\ UNCHANGED sched_vars

StorageDeleteUserToken(u) ==
    /\ user_tokens' = delete_user_token(user_tokens, u).table
    /\ last_call' = [op |-> "delete_user_token", user_id |-> u,
                     ret |-> delete_user_token(user_tokens, u).ret,
                     latest |-> [LatestBefore EXCEPT ![u] = None],
                     resaved |-> ResavedBefore \ {u}]
    /\ UNCHANGED <<now, ticks, ops, pc, local, result, obs>>
    /\ UNCHANGED <<retry, conversation_history, log_run>>
    /\ UNCHANGED sched_vars

TokenStoreNext ==
    \/ \E u \in Users, td \in LoginTokens(now) : StorageSaveUserToken(u, td)
    \/ \E u \in Users : StorageGetUserToken(u)
    \/ \E u \in Users : StorageDeleteUserToken(u)

TokenStoreSpec == Init /\ [][TokenStoreNext]_vars

(***************************** reminder store calls *************************)
StorageCall(op, u, id, cron, message, ret) ==
    last_call' = [op |-> op, user_id |-> u, id |-> id, cron |-> cron,
                  message |-> message, ret |-> ret, table_before |-> reminders]

\* StorageManager.add_reminder: the database assigns a primary key no row has
StorageAddReminder(u, cron, message) ==
    /\ \E id \in ReminderIds \ DOMAIN reminders :
         /\ reminders' = storage_add_reminder(reminders, id, u, cron, message)
         /\ StorageCall("add_reminder", u, id, cron, message, id)
    /\ UNCHANGED <<jobs, running, callback, registered, fired, calls, spc, task, last_op>>
    /\ UNCHANGED <<retry, conversation_history, log_run>>
    /\ UNCHANGED cred_vars

StorageGetReminders(u) ==
    /\ StorageCall("get_reminders", u, 0, <<>>, <<>>, get_reminders(reminders, u))
    /\ UNCHANGED <<retry, conversation_history, log_run>>
    /\ UNCHANGED sched_vars
    /\ UNCHANGED cred_vars

StorageGetAllReminders ==
    /\ StorageCall("get_all_reminders", "none", 0, <<>>, <<>>, get_all_reminders(reminders))
    /\ UNCHANGED <<retry, conversation_history, log_run>>
    /\ UNCHANGED sched_vars
    /\ UNCHANGED cred_vars

StorageDeleteReminder(id) ==
    /\ reminders' = storage_delete_reminder(reminders, id).table
    /\ StorageCall("delete_reminder", "none", id, <<>>, <<>>,
                   storage_delete_reminder(reminders, id).ret)
    /\ UNCHANGED <<jobs, running, callback, registered, fired, calls, spc, task, last_op>>
    /\ UNCHANGED <<retry, conversation_history, log_run>>
    /\ UNCHANGED cred_vars

ReminderStoreNext ==
    \/ \E u \in Users, cron \in Crons, m \in Messages : StorageAddReminder(u, cron, m)
    \/ \E u \in Users : StorageGetReminders(u)
    \/ StorageGetAllReminders
    \/ \E id \in ReminderIds : StorageDeleteReminder(id)

ReminderStoreSpec == Init /\ [][ReminderStoreNext]_vars

(***************************** whose reminder is deleted *********************)
\* Two users add reminders and ask for deletes by id, one request at a time.
OwnerNext ==
    \/ \E c \in SeqClients, u \in Users : HandlerAdd(c, u, EveryMinute \o <<"hi">>)
    \/ \E c \in SeqClients : Register(c)
    \/ \E c \in SeqClients, u \in Users, id \in ReminderIds : HandlerDelete(c, u, id)
    \/ \E c \in SeqClients : DeleteReminderRow(c)
    \/ \E c \in SeqClients : Reply(c)

OwnerSpec == Init /\ [][OwnerNext]_vars

\* a job is added, fires, is removed, and the engine is started and stopped
LifeNext ==
    \/ Start
    \/ Stop
    \/ \E c \in SeqClients : AdapterAdd(c, "u1", EveryMinute, "hi")
    \/ \E c \in SeqClients : Register(c)
    \/ \E c \in SeqClients, id \in 1..MaxReminderId : HandlerDelete(c, "u1", id)
    \/ \E c \in SeqClients : DeleteReminderRow(c)
    \/ \E c \in SeqClients : Reply(c)
    \/ \E i \in 1..MaxReminderId : Len(fired) < MaxCallbackFirings /\ Fire(i)

LifeSpec == Init /\ [][LifeNext]_vars

(***************************** two callers, one record **********************)
\* The login comes first; then one get_valid_token for the same user from
\* each of two clients, whose steps interleave at every await.
RefreshRaceNext ==
    \/ Tick
    \/ /\ DOMAIN user_tokens = {}
       /\ ticks = 0
       /\ SaveUserToken("c1", "u1")
    \/ \E c \in Clients : GetValidToken(c, "u1")
    \/ \E c \in Clients : RefreshResponse(c)
    \/ \E c \in Clients : RefreshSave(c)

RefreshRaceSpec == Init /\ [][RefreshRaceNext]_vars

(***************************** delete during a refresh **********************)
\* The login comes first; then one client calls get_valid_token and another
\* delete_user_token for the same user, their steps interleaving at every await.
DeleteRaceNext ==
    \/ Tick
    \/ /\ ops = 0
       /\ SaveUserToken("c1", "u1")
    \/ GetValidToken("c1", "u1")
    \/ RefreshResponse("c1")
    \/ RefreshSave("c1")
    \/ DeleteUserToken("c2", "u1")
    \/ RevokeResponse("c2")
    \/ DeleteRow("c2")

DeleteRaceSpec == Init /\ [][DeleteRaceNext]_vars

(***************************** a provider that rotates refresh tokens *******)
\* how many refresh exchanges the token endpoint has answered with 200
Answered == Cardinality({c \in Clients : obs[c].response.kind = "response"})

\* the n-th access token and refresh token the provider issues
AccessIssued(n) == IF n = 1 THEN "A1" ELSE "A2"
RefreshIssued(n) == IF n = 1 THEN "R1" ELSE "R2"

\* refresh_access_token from the POST to the save, for an answer resp that
\* passes the status test and carries an access_token
RefreshAnswered(c, resp) ==
    /\ pc[c] = "refresh_post"
    /\ refresh_status(resp) = "ok"
    /\ local' = [local EXCEPT ![c].token_data =
           apply_refresh(local[c].token_data, resp.json, now)]
    /\ obs' = [obs EXCEPT ![c] =
           [obs[c] EXCEPT !.response = resp, !.refresh_time = now]]
    /\ pc' = [pc EXCEPT ![c] = "refresh_save"]
    /\ UNCHANGED <<now, ticks, ops, user_tokens, result>>
    /\ UNCHANGED sched_vars
    /\ UNCHANGED util_vars

\* The token endpoint answers 200 and rotates: every answer carries a new
\* refresh_token, which supersedes the ones issued before.
RotatingRefreshResponse(c) ==
    RefreshAnswered(c, HttpResponse(HTTP_OK,
                           [access_token |-> AccessIssued(Answered + 1),
                            refresh_token |-> RefreshIssued(Answered + 1)]))

\* The login comes first; then one get_valid_token for the same user from
\* each of two clients.
RotationNext ==
    \/ Tick
    \/ /\ ops = 0
       /\ SaveUserToken("c1", "u1")
    \/ \E c \in Clients : GetValidToken(c, "u1")
    \/ \E c \in Clients : RotatingRefreshResponse(c)
    \/ \E c \in Clients : RefreshSave(c)

RotationSpec == Init /\ [][RotationNext]_vars

(***************************** a call after a refresh ***********************)
\* Lifetimes above the refresh window that the provider reports.
LongLifetimes == {LOOKAHEAD + 1, DEFAULT_EXPIRES_IN}

\* The token endpoint answers 200 with a lifetime above the refresh window.
LongLivedRefreshResponse(c) ==
    \E l \in LongLifetimes :
        RefreshAnswered(c, HttpResponse(HTTP_OK, [access_token |-> "A1", expires_in |-> l]))

\* The login comes first; then get_valid_token for the same user, one call
\* after the other.
FollowUpNext ==
    \/ Tick
    \/ /\ ops = 0
       /\ SaveUserToken("c1", "u1")
    \/ GetValidToken("c1", "u1")
    \/ /\ pc["c1"] = "done"
       /\ GetValidToken("c2", "u1")
    \/ \E c \in Clients : LongLivedRefreshResponse(c)
    \/ \E c \in Clients : RefreshSave(c)

FollowUpSpec == Init /\ [][FollowUpNext]_vars

(***************************** two runs of a credential operation ***********)
TokenKeys == {"access_token", "refresh_token"}

\* d1 and d2 have the same keys, the same value under every key that is no
\* token, and under a token key both are empty or both are not
SameButTokens(d1, d2) ==
    /\ DOMAIN d1 = DOMAIN d2
    /\ \A k \in DOMAIN d1 \ TokenKeys : d1[k] = d2[k]
    /\ \A k \in DOMAIN d1 \cap TokenKeys : (d1[k] = "") <=> (d2[k] = "")

\* another value for a token: empty stays empty
other_token(v) ==
    IF v = "" THEN ""
    ELSE IF v = "A0" THEN "B0" ELSE IF v = "B0" THEN "A0"
    ELSE IF v = "R0" THEN "S0" ELSE IF v = "S0" THEN "R0"
    ELSE IF v = "A1" THEN "B1" ELSE IF v = "B1" THEN "A1"
    ELSE IF v = "R1" THEN "S1" ELSE "R1"

\* the records of a second run: d itself, and d with one or both tokens replaced
SecondRun(d) ==
    {[k \in DOMAIN d |-> IF k \in ks THEN other_token(d[k]) ELSE d[k]] :
        ks \in SUBSET (DOMAIN d \cap TokenKeys)}

SecondAnswer(r) ==
    IF r.kind = "response"
    THEN {HttpResponse(r.status_code, b) : b \in SecondRun(r.json)}
    ELSE {r}

SameResponseButTokens(r1, r2) ==
    /\ r1.kind = r2.kind
    /\ r1.kind = "response" =>
          /\ r1.status_code = r2.status_code
          /\ SameButTokens(r1.json, r2.json)

LogRun(op, differ, log, shadow) ==
    /\ log_run' = [op |-> op, differ |-> differ, log |-> log, shadow |-> shadow]
    /\ UNCHANGED <<retry, conversation_history, last_call>>
    /\ UNCHANGED cred_vars
    /\ UNCHANGED sched_vars

\* get_valid_token(u), twice: same user, clock, provider status and commit
\* outcome, records and answers that differ in token values only
LogGetValidToken(u) ==
  /\ log_run.op = "none"
  /\ \E td1 \in LogTokens(now) \cup {None}, r1 \in LogTokenResponses, committed \in BOOLEAN :
      \E td2 \in SecondRun(td1), r2 \in SecondAnswer(r1) :
        /\ SameButTokens(td1, td2)
        /\ SameResponseButTokens(r1, r2)
        /\ LogRun("get_valid_token", td1 # td2 \/ r1 # r2,
                  get_valid_token_log(u, td1, now, r1, committed),
                  get_valid_token_log(u, td2, now, r2, committed))

\* refresh_access_token(u, td), twice
LogRefresh(u) ==
  /\ log_run.op = "none"
  /\ \E td1 \in LogTokens(now), r1 \in LogTokenResponses, committed \in BOOLEAN :
      \E td2 \in SecondRun(td1), r2 \in SecondAnswer(r1) :
        /\ SameButTokens(td1, td2)
        /\ SameResponseButTokens(r1, r2)
        /\ LogRun("refresh_access_token", td1 # td2 \/ r1 # r2,
                  refresh_access_token_log(u, td1, now, r1, committed),
                  refresh_access_token_log(u, td2, now, r2, committed))

\* revoke_google_token(td), twice
LogRevoke ==
  /\ log_run.op = "none"
  /\ \E td1 \in LogTokens(now) \cup DegradedTokens, resp \in RevokeEndpointOutcomes :
      \E td2 \in SecondRun(td1) :
        /\ SameButTokens(td1, td2)
        /\ LogRun("revoke_google_token", td1 # td2,
                  revoke_google_token_log(td1, resp),
                  revoke_google_token_log(td2, resp))

\* delete_user_token(u), twice
LogDelete(u) ==
  /\ log_run.op = "none"
  /\ \E td1 \in LogTokens(now) \cup DegradedTokens \cup {None},
       resp \in RevokeEndpointOutcomes, success \in BOOLEAN :
      \E td2 \in SecondRun(td1) :
        /\ SameButTokens(td1, td2)
        /\ LogRun("delete_user_token", td1 # td2,
                  delete_user_token_log(u, td1, resp, success),
                  delete_user_token_log(u, td2, resp, success))

\* save_user_token(u, td), twice
LogSave ==
  /\ log_run.op = "none"
  /\ \E td1 \in LogTokens(now) \cup DegradedTokens :
      \E td2 \in SecondRun(td1) :
        /\ SameButTokens(td1, td2)
        /\ LogRun("save_user_token", td1 # td2,
                  save_user_token_log(td1), save_user_token_log(td2))

\* both runs have returned: the next pair of runs starts with empty logs
LogDone ==
    /\ log_run.op # "none"
    /\ log_run' = NoLog
    /\ UNCHANGED <<retry, conversation_history, last_call>>
    /\ UNCHANGED cred_vars
    /\ UNCHANGED sched_vars

LogNext ==
    \/ \E u \in Users : LogGetValidToken(u)
    \/ \E u \in Users : LogRefresh(u)
    \/ LogRevoke
    \/ \E u \in Users : LogDelete(u)
    \/ LogSave
    \/ LogDone

LogSpec == Init /\ [][LogNext]_vars

(***************************** retry transport actions **********************)
\* a request enters handle_async_request
HandleAsyncRequest ==
    /\ retry.state = "idle"
    /\ retry' = [state |-> "sending", attempt |-> 0, outcomes |-> <<>>]
    /\ UNCHANGED <<conversation_history, last_call, log_run>>
    /\ UNCHANGED cred_vars
    /\ UNCHANGED sched_vars

\* the underlying transport answers or raises: one pass of the loop
TransportAnswers ==
    /\ retry.state = "sending"
    /\ retry.attempt < MAX_RETRIES
    /\ \E outcome \in TransportOutcomes :
         LET d == retry_decision(MAX_RETRIES, retry.attempt, outcome) IN
           retry' = [retry EXCEPT
                        !.outcomes = Append(@, outcome),
                        !.state = IF d = "retry" THEN "sleeping"
                                  ELSE IF d = "return" THEN "returned" ELSE "raised"]
    /\ UNCHANGED <<conversation_history, last_call, log_run>>
    /\ UNCHANGED cred_vars
    /\ UNCHANGED sched_vars

\* asyncio.sleep(delay) is over: the next pass of the loop
Backoff ==
    /\ retry.state = "sleeping"
    /\ retry' = [retry EXCEPT !.state = "sending", !.attempt = @ + 1]
    /\ UNCHANGED <<conversation_history, last_call, log_run>>
    /\ UNCHANGED cred_vars
    /\ UNCHANGED sched_vars

\* the caller has the response or the exception
RequestDone ==
    /\ retry.state \in {"returned", "raised"}
    /\ retry' = IdleRetry
    /\ UNCHANGED <<conversation_history, last_call, log_run>>
    /\ UNCHANGED cred_vars
    /\ UNCHANGED sched_vars

RetryNext ==
    \/ HandleAsyncRequest
    \/ TransportAnswers
    \/ Backoff
    \/ RequestDone

RetrySpec == Init /\ [][RetryNext]_vars

(***************************** properties **********************************)
Done(c, o) == pc[c] = "done" /\ local[c].op = o
\* the client's refresh_access_token call returned normally
Refreshed(c) == Done(c, "get_valid_token") /\ obs[c].refresh_exit = "returned"
\* the row of the call's user before the call
RowBefore(c) == obs[c].entry_store[local[c].user_id]

\* C1 (as stated): for every stored record that carries an expires_at, 0
\* included, one get_valid_token call makes exactly one refresh call when
\* expires_at < now + 300 and none when expires_at >= now + 300.
C1_RefreshIffWithinLookahead ==
    \A c \in Clients :
        (Done(c, "get_valid_token") /\ obs[c].fetched # None
            /\ "expires_at" \in DOMAIN obs[c].fetched)
        => obs[c].refresh_calls =
               (IF obs[c].fetched["expires_at"] < local[c].current_time + LOOKAHEAD
                THEN 1 ELSE 0)

\* C2: when the refresh made by get_valid_token fails (no refresh_token, a
\* non-200 answer, a transport error) get_valid_token returns and does not
\* raise: None when expires_at < now, the fetched record unchanged when
\* now <= expires_at < now + 300.
C2_FailedRefreshReturnsNoneOrOldRecord ==
    \A c \in Clients :
        (Done(c, "get_valid_token") /\ obs[c].refresh_calls = 1
            /\ obs[c].refresh_exit \in {"ValueError", "TransportError"})
        => /\ result[c].kind = "return"
           /\ LET e == obs[c].fetched["expires_at"]
                  t == local[c].current_time
              IN  /\ e < t => result[c].value = None
                  /\ (t <= e /\ e < t + LOOKAHEAD)
                        => /\ result[c].value = obs[c].fetched
                           /\ result[c].value = RowBefore(c)

C2_Witness ==
    \E c \in Clients :
        /\ Done(c, "get_valid_token")
        /\ obs[c].refresh_exit = "TransportError"
        /\ obs[c].fetched["expires_at"] = local[c].current_time
        /\ result[c] = Returned(obs[c].fetched)

\* C3: get_valid_token for a user without a row returns None, calls neither
\* refresh nor the network, and leaves the table as it was.
C3_NoRecordReturnsNoneWithoutEffects ==
    \A c \in Clients :
        (Done(c, "get_valid_token") /\ local[c].user_id \notin DOMAIN obs[c].entry_store)
        => /\ result[c] = Returned(None)
           /\ obs[c].refresh_calls = 0
           /\ obs[c].network_calls = 0
           /\ user_tokens = obs[c].entry_store

C3_Witness ==
    \E c \in Clients :
        /\ Done(c, "get_valid_token")
        /\ local[c].user_id \notin DOMAIN obs[c].entry_store
        /\ DOMAIN obs[c].entry_store # {}
        /\ result[c] = Returned(None)

\* C4: get_valid_token on a record without expires_at, or with
\* expires_at >= now + 300, returns the stored record unchanged, attempts no
\* renewal, sends no request and leaves the table as it was.
C4_FreshOrUndatedRecordReturnedAsIs ==
    \A c \in Clients :
        (Done(c, "get_valid_token")
            /\ local[c].user_id \in DOMAIN obs[c].entry_store
            /\ \/ "expires_at" \notin DOMAIN RowBefore(c)
               \/ RowBefore(c)["expires_at"] >= local[c].current_time + LOOKAHEAD)
        => /\ result[c] = Returned(RowBefore(c))
           /\ obs[c].refresh_calls = 0
           /\ obs[c].network_calls = 0
           /\ user_tokens = obs[c].entry_store

C4_Witness ==
    \E c \in Clients :
        /\ Done(c, "get_valid_token")
        /\ local[c].user_id \in DOMAIN obs[c].entry_store
        /\ "expires_at" \in DOMAIN RowBefore(c)
        /\ RowBefore(c)["expires_at"] = local[c].current_time + LOOKAHEAD
        /\ result[c] = Returned(RowBefore(c))

\* C5: after a successful refresh the record's refresh_token is the one the
\* provider returned if the response has one, else the record's original one.
C5_RefreshTokenRotatedOrPreserved ==
    \A c \in Clients :
        Refreshed(c)
        => LET new == obs[c].response.json
               want == IF "refresh_token" \in DOMAIN new
                       THEN new["refresh_token"]
                       ELSE RowBefore(c)["refresh_token"]
           IN  /\ "refresh_token" \in DOMAIN result[c].value
               /\ result[c].value["refresh_token"] = want
               /\ user_tokens[local[c].user_id]["refresh_token"] = want

C5_Witness ==
    \E c \in Clients :
        /\ Refreshed(c)
        /\ "refresh_token" \notin DOMAIN obs[c].response.json
        /\ result[c].value["refresh_token"] = "R0"

\* C6: a successful refresh yields a record with the provider's access_token,
\* expires_at = (time of the exchange) + expires_in, 3600 when the provider
\* omits expires_in, and every other field as it was before the refresh.
C6_RefreshUpdatesTokenAndExpiryOnly ==
    \A c \in Clients :
        Refreshed(c)
        => LET new == obs[c].response.json
               old == RowBefore(c)
               rec == result[c].value
               touched == {"access_token", "expires_at", "refresh_token"}
           IN  /\ rec["access_token"] = new["access_token"]
               /\ rec["expires_at"] =
                      obs[c].refresh_time
                          + (IF "expires_in" \in DOMAIN new THEN new["expires_in"]
                             ELSE DEFAULT_EXPIRES_IN)
               /\ DOMAIN rec \ touched = DOMAIN old \ touched
               /\ \A k \in DOMAIN old \ touched : rec[k] = old[k]

C6_Witness ==
    \E c \in Clients :
        /\ Refreshed(c)
        /\ "expires_in" \notin DOMAIN obs[c].response.json
        /\ obs[c].refresh_time > local[c].current_time
        /\ result[c].value["expires_at"] = obs[c].refresh_time + DEFAULT_EXPIRES_IN
        /\ result[c].value["scope"] = "cal"

\* C7: when refresh returns, the row of the user in the table is the record
\* it returns, and no other row has changed.
C7_RefreshedRecordIsStored ==
    \A c \in Clients :
        Refreshed(c)
        => /\ local[c].user_id \in DOMAIN user_tokens
           /\ user_tokens[local[c].user_id] = result[c].value
           /\ DOMAIN user_tokens = DOMAIN obs[c].entry_store
           /\ \A u \in DOMAIN user_tokens \ {local[c].user_id} :
                  user_tokens[u] = obs[c].entry_store[u]

C7_Witness ==
    \E c \in Clients :
        /\ Refreshed(c)
        /\ user_tokens[local[c].user_id] # RowBefore(c)
        /\ user_tokens[local[c].user_id] = result[c].value
        /\ DOMAIN user_tokens # {local[c].user_id}

\* C8: refresh on a record whose refresh_token is missing or empty fails with
\* an error, sends no request and leaves the table as it was.
C8_NoRefreshTokenFailsWithoutRequest ==
    \A c \in Clients :
        (Done(c, "get_valid_token") /\ obs[c].refresh_calls = 1
            /\ \/ "refresh_token" \notin DOMAIN obs[c].fetched
               \/ obs[c].fetched["refresh_token"] = "")
        => /\ obs[c].refresh_exit = "ValueError"
           /\ obs[c].network_calls = 0
           /\ obs[c].response = NoResponse
           /\ user_tokens = obs[c].entry_store

C8_Witness ==
    \E c \in Clients :
        /\ Done(c, "get_valid_token")
        /\ obs[c].refresh_calls = 1
        /\ "refresh_token" \in DOMAIN obs[c].fetched
        /\ obs[c].fetched["refresh_token"] = ""
        /\ obs[c].refresh_exit = "ValueError"

\* C9: a refresh whose response is not 2xx, or whose request fails in
\* transport, ends in an exception raised to its caller (ValueError for the
\* status, the transport's own error otherwise) and leaves the table as it was.
C9_FailedExchangeRaisesAndKeepsStore ==
    \A c \in Clients :
        (Done(c, "get_valid_token") /\ obs[c].response # NoResponse)
        => /\ obs[c].response.kind = "transport_error"
                => /\ obs[c].refresh_exit = "TransportError"
                   /\ user_tokens = obs[c].entry_store
           /\ (obs[c].response.kind = "response"
                  /\ obs[c].response.status_code \notin 200..299)
                => /\ obs[c].refresh_exit = "ValueError"
                   /\ user_tokens = obs[c].entry_store

C9_Witness ==
    \E c \in Clients :
        /\ Done(c, "get_valid_token")
        /\ obs[c].response.kind = "response"
        /\ obs[c].response.status_code = HTTP_BAD_REQUEST
        /\ obs[c].refresh_exit = "ValueError"

\* C10: is_token_valid (behind is_user_authenticated) answers true exactly
\* when the record exists, carries an expires_at and now < expires_at; so it
\* answers false when expires_at = now and when expires_at is in the past.
C10_ValidIffStrictlyBeforeExpiry ==
    \A c \in Clients :
        Done(c, "is_user_authenticated")
        => result[c] =
             Returned(/\ local[c].user_id \in DOMAIN obs[c].entry_store
                      /\ "expires_at" \in DOMAIN RowBefore(c)
                      /\ local[c].current_time < RowBefore(c)["expires_at"])

C10_Witness ==
    \E c \in Clients :
        /\ Done(c, "is_user_authenticated")
        /\ local[c].user_id \in DOMAIN obs[c].entry_store
        /\ "expires_at" \in DOMAIN RowBefore(c)
        /\ RowBefore(c)["expires_at"] = local[c].current_time
        /\ result[c] = Returned(FALSE)

\* the client's revoke_google_token call has ended
Revoked(c) ==
    /\ local[c].op = "delete_user_token"
    /\ pc[c] \in {"delete_row", "done"}
    /\ obs[c].revoke_calls = 1

\* C11: revoke_google_token never raises; it returns False without a request
\* when the record has no access_token, True when the provider answers 200 or
\* 400, False for every other status and for a transport failure.
C11_RevokeResultByOutcome ==
    \A c \in Clients :
        Revoked(c)
        => /\ obs[c].revoke_exit = "return"
           /\ IF "access_token" \notin DOMAIN obs[c].fetched
                 \/ obs[c].fetched["access_token"] = ""
              THEN /\ obs[c].revoke_ret = FALSE
                   /\ obs[c].network_calls = 0
                   /\ obs[c].response = NoResponse
              ELSE /\ obs[c].network_calls = 1
                   /\ obs[c].revoke_ret =
                        (/\ obs[c].response.kind = "response"
                         /\ obs[c].response.status_code \in {HTTP_OK, HTTP_BAD_REQUEST})

C11_Witness ==
    \E c \in Clients :
        /\ Revoked(c)
        /\ obs[c].response.kind = "response"
        /\ obs[c].response.status_code = HTTP_BAD_REQUEST
        /\ obs[c].revoke_ret = TRUE

\* C12: delete_user_token makes exactly one revoke attempt when a record
\* exists and none when there is none, then removes the row whatever the
\* revoke gave, and returns True exactly when a record existed.
C12_DeleteRevokesOnceThenRemoves ==
    \A c \in Clients :
        Done(c, "delete_user_token")
        => LET u == local[c].user_id
               existed == u \in DOMAIN obs[c].entry_store
           IN  /\ obs[c].revoke_calls = (IF existed THEN 1 ELSE 0)
               /\ ~existed => obs[c].network_calls = 0
               /\ u \notin DOMAIN user_tokens
               /\ result[c] = Returned(existed)
               /\ DOMAIN user_tokens = DOMAIN obs[c].entry_store \ {u}
               /\ \A v \in DOMAIN user_tokens : user_tokens[v] = obs[c].entry_store[v]

C12_Witness ==
    \E c \in Clients :
        /\ Done(c, "delete_user_token")
        /\ local[c].user_id \in DOMAIN obs[c].entry_store
        /\ obs[c].revoke_calls = 1
        /\ obs[c].revoke_ret = FALSE
        /\ obs[c].response = TransportError
        /\ result[c] = Returned(TRUE)
        /\ DOMAIN user_tokens # {}

(***************************** reminder properties *************************)
AddDone(c) == spc[c] = "done" /\ task[c].op = "add"
\* the jobs of a list under any id but this one
Others(js, job_id) == SelectSeq(js, LAMBDA j : j.id # job_id)
\* how many jobs of a list are registered under this id
CountOf(js, job_id) == Cardinality({i \in 1..Len(js) : js[i].id = job_id})

\* C13: an add with an invalid cron expression, through the Telegram handler
\* or the agent adapter, fails with an error, registers no job and writes no
\* row; an add with a valid expression succeeds and registers its job.
C13_InvalidCronAddWritesNothing ==
    \A c \in Clients :
        AddDone(c) =>
            IF from_crontab_ok(task[c].cron)
            THEN task[c].exit = "return" /\ task[c].registered
            ELSE /\ task[c].exit \in {"ValueError", "TelegramValidationError"}
                 /\ ~task[c].registered
                 /\ ~task[c].wrote

C15_RemoveReturnsWhetherRegistered ==
    last_op.op = "delete_reminder" =>
        /\ last_op.exit = "return"
        /\ (last_op.outcome = "True") <=> get_job(last_op.jobs_before, last_op.id)
        /\ ~get_job(jobs, last_op.id)
        /\ jobs = Others(last_op.jobs_before, last_op.id)

\* a registered job was removed while another one stays
C15_Witness ==
    /\ last_op.op = "delete_reminder"
    /\ last_op.outcome = "True"
    /\ jobs # <<>>

\* C16: when start() is called on a scheduler that is not running and holds
\* no job, and the loader returned N rows, right after start() exactly N jobs
\* are registered, one under the id of each row, and the scheduler runs.
C16_StartRegistersEveryLoadedRow ==
    (/\ last_op.op = "start"
     /\ last_op.loaded.kind = "return"
     /\ ~last_op.running_before
     /\ last_op.jobs_before = <<>>) =>
        /\ Len(jobs) = Len(last_op.loaded.value)
        /\ \A i \in 1..Len(last_op.loaded.value) :
             CountOf(jobs, Str(last_op.loaded.value[i].id)) = 1
        /\ running

\* C17: when the loader raised, start() returns normally, the scheduler runs
\* and the job list is as it was before the call.
C17_LoaderFailureStillStarts ==
    (last_op.op = "start" /\ last_op.loaded.kind = "raise") =>
        /\ last_op.exit = "return"
        /\ running
        /\ jobs = last_op.jobs_before

\* the loader raised while rows were stored and the scheduler was not running
C17_Witness ==
    /\ last_op.op = "start"
    /\ last_op.loaded.kind = "raise"
    /\ ~last_op.running_before
    /\ DOMAIN reminders # {}
    /\ jobs = <<>>

\* C18: stop() never raises and leaves the scheduler not running; when the
\* scheduler was not running it does not call shutdown and changes no job.
C18_StopIsIdempotent ==
    last_op.op = "stop" =>
        /\ last_op.exit = "return"
        /\ ~running
        /\ ~last_op.running_before =>
              (~last_op.shutdown_called /\ jobs = last_op.jobs_before)

\* stop() right after stop()
C18_Witness ==
    /\ last_op.op = "stop"
    /\ last_op.repeated
    /\ ~last_op.running_before

\* C19: a firing whose callback raised returns normally from _job_wrapper,
\* and right after it the job list is unchanged, the fired job is still
\* registered and the scheduler still runs.
C19_CallbackErrorKeepsJobs ==
    (last_op.op = "fire" /\ last_op.outcome = "raise") =>
        /\ last_op.exit = "return"
        /\ jobs = last_op.jobs_before
        /\ get_job(jobs, last_op.id)
        /\ running

\* job A's callback raised, then job B fired, then job A fired again
C19_Witness ==
    \E i, j, k \in 1..Len(fired) :
        /\ i < j /\ j < k
        /\ fired[i].outcome = "raise"
        /\ fired[j].id # fired[i].id
        /\ fired[k].id = fired[i].id

\* C20: a firing with no callback set calls nothing and returns normally, the
\* job stays registered, and the callback has been called once per firing
\* that found a callback set, never for a dropped firing.
C20_FiringWithoutCallbackIsDropped ==
    /\ Len(calls) = Cardinality({i \in 1..Len(fired) : fired[i].outcome # "dropped"})
    /\ (last_op.op = "fire" /\ last_op.callback = "none") =>
          /\ last_op.exit = "return"
          /\ fired[Len(fired)].outcome = "dropped"
          /\ jobs = last_op.jobs_before
          /\ get_job(jobs, last_op.id)

\* a firing was dropped, a callback was set, and the only call made since is
\* the one of a later firing
C20_Witness ==
    \E i, j \in 1..Len(fired) :
        /\ i < j
        /\ fired[i].outcome = "dropped"
        /\ fired[j].outcome = "ok"
        /\ Len(calls) = 1
        /\ callback # "none"

\* the job of a list registered under this id
JobOf(js, job_id) == js[CHOOSE i \in 1..Len(js) : js[i].id = job_id]

C22_EveryJobHasARow ==
    \A i \in 1..Len(jobs) : \E id \in DOMAIN reminders : Str(id) = jobs[i].id

\* C23: whenever an operation has presented an access token to the calendar
\* API, the record it read had passed the staleness test of get_valid_token
\* in that operation: it was undated or outside the refresh window, or a
\* refresh was attempted.
C23_PresentedTokenPassedStalenessCheck ==
    \A c \in Clients :
        obs[c].presented # "none" =>
            \/ ~TruthyInt(obs[c].fetched, "expires_at")
            \/ ~needs_refresh(obs[c].fetched["expires_at"], local[c].current_time)
            \/ obs[c].refresh_calls = 1

\* a transport error, a 5xx response or a 429 response
Retriable(outcome) ==
    \/ outcome.kind = "exception"
    \/ outcome.kind = "response" /\ outcome.status_code >= HTTP_SERVER_ERROR
    \/ outcome.kind = "response" /\ outcome.status_code = HTTP_TOO_MANY_REQUESTS

\* C24: the transport sends a request at most max_retries times; every
\* attempt but the last ended in a transport error, a 5xx or a 429; and the
\* call ends before max_retries attempts only with a response of another
\* status, which it returns.
C24_RetriesTransportErrorsAnd5xx ==
    /\ Len(retry.outcomes) <= MAX_RETRIES
    /\ \A i \in 1..Len(retry.outcomes) - 1 : Retriable(retry.outcomes[i])
    /\ retry.state \in {"returned", "raised"} =>
          LET last == retry.outcomes[Len(retry.outcomes)] IN
            IF Retriable(last)
            THEN Len(retry.outcomes) = MAX_RETRIES
            ELSE retry.state = "returned"

\* the refresh exchange of client c failed on a transport error or a 5xx
RefreshFailedRetriably(c) ==
    \/ obs[c].refresh_exit = "TransportError"
    \/ /\ obs[c].refresh_exit = "ValueError"
       /\ obs[c].response.kind = "response"
       /\ obs[c].response.status_code >= HTTP_SERVER_ERROR

\* C25: a refresh that reports a transport failure or a 5xx response to its
\* caller has sent the exchange more than once (the transport layer retried
\* it) and at most max_retries times.
C25_RefreshFailureWasRetried ==
    \A c \in Clients :
        RefreshFailedRetriably(c) =>
            /\ obs[c].network_calls > 1
            /\ obs[c].network_calls <= MAX_RETRIES

RefreshedAndSaved(c) ==
    /\ pc[c] = "done"
    /\ local[c].op = "get_valid_token"
    /\ obs[c].refresh_exit = "returned"

\* both clients fetched the same stale record, so their calls overlapped
BothRefreshed ==
    /\ \A c \in Clients : RefreshedAndSaved(c)
    /\ obs["c1"].fetched = obs["c2"].fetched

\* C27: two get_valid_token calls for one user that interleave on a stale
\* record may both refresh; every save leaves in the store the whole record
\* of the caller that saved, so after both the stored record is the later
\* saver's record, one of the two refreshed records and no mixture of them.
C27_LastWriterWinsWholeRecord ==
    /\ [][\A c \in Clients :
            (pc[c] = "refresh_save" /\ pc'[c] = "done"
                /\ obs'[c].refresh_exit = "returned")
            => user_tokens' = SetKey(user_tokens, local[c].user_id, local[c].token_data)]_vars
    /\ [](BothRefreshed => user_tokens["u1"] \in {result[c].value : c \in Clients})

\* both calls sent a refresh request, and the two refreshed records differ
C27_Witness ==
    /\ BothRefreshed
    /\ \A c \in Clients : obs[c].network_calls = 1
    /\ result["c1"].value # result["c2"].value
    /\ user_tokens["u1"] = result["c2"].value

\* the last n elements of list l, in their order
LastN(l, n) == [i \in 1..n |-> l[Len(l) - n + i]]

\* C28: after save_conversation_history(user, messages, max) with max > 0 the
\* user's history reads as messages when len(messages) <= max and as the
\* last max messages otherwise; with max <= 0 the save raises ValueError and
\* the table is unchanged; a user with no saved history reads as [].
C28_HistoryKeepsLastMax ==
    /\ last_call.op = "save_conversation_history" =>
          IF last_call.max_messages > 0
          THEN /\ last_call.exit.kind = "return"
               /\ get_conversation_history(conversation_history, last_call.user_id) =
                     IF Len(last_call.messages) <= last_call.max_messages
                     THEN last_call.messages
                     ELSE LastN(last_call.messages, last_call.max_messages)
               /\ \A u \in Users \ {last_call.user_id} :
                     get_conversation_history(conversation_history, u) =
                         get_conversation_history(last_call.table_before, u)
          ELSE /\ last_call.exit = Raised("ValueError")
               /\ conversation_history = last_call.table_before
    /\ (last_call.op = "get_conversation_history"
            /\ last_call.user_id \notin last_call.saved) =>
          last_call.exit = Returned(<<>>)

\* a save that had to drop the oldest messages of a list, over an older history
C28_Witness ==
    /\ last_call.op = "save_conversation_history"
    /\ last_call.max_messages > 0
    /\ Len(last_call.messages) > last_call.max_messages
    /\ last_call.messages[1] # last_call.messages[Len(last_call.messages)]
    /\ last_call.user_id \in DOMAIN last_call.table_before

\* C29: get_user_token(id) returns the dictionary of the most recent
\* save_user_token for id, and None for an id never saved or deleted since;
\* the table holds one row per id with a record and none for the others.
C29_GetReturnsLatestSave ==
    /\ last_call.op = "get_user_token" =>
          last_call.ret = last_call.latest[last_call.user_id]
    /\ last_call.op # "none" =>
          /\ DOMAIN user_tokens = {u \in Users : last_call.latest[u] # None}
          /\ \A u \in DOMAIN user_tokens : user_tokens[u] = last_call.latest[u]

\* a read of a record that replaced a different one, while the other user
\* has no record
C29_Witness ==
    /\ last_call.op = "get_user_token"
    /\ last_call.user_id \in last_call.resaved
    /\ last_call.ret # None
    /\ \E u \in Users \ {last_call.user_id} : last_call.latest[u] = None

\* how many elements of list l are equal to row
Occurrences(l, row) == Cardinality({i \in 1..Len(l) : l[i] = row})

\* the row add_reminder was asked to store, under the id it returned
AddedRow ==
    [id |-> last_call.ret, user_id |-> last_call.user_id,
     cron |-> last_call.cron, message |-> last_call.message]

\* C30: add_reminder returns an id no stored reminder held, and the reminder
\* is then once in its owner's list and once in the list of all reminders,
\* with the owner, cron and message given, the other rows being as before;
\* delete_reminder(id) returns True and removes that row only when it
\* exists, and returns False and leaves the table as it was when it does not.
C30_ReminderStoreAddListDelete ==
    /\ last_call.op = "add_reminder" =>
          /\ last_call.ret \notin DOMAIN last_call.table_before
          /\ Occurrences(get_reminders(reminders, last_call.user_id), AddedRow) = 1
          /\ Occurrences(get_all_reminders(reminders), AddedRow) = 1
          /\ Len(get_all_reminders(reminders)) =
                Len(get_all_reminders(last_call.table_before)) + 1
          /\ \A id \in DOMAIN last_call.table_before :
                id \in DOMAIN reminders /\ reminders[id] = last_call.table_before[id]
    /\ last_call.op = "delete_reminder" =>
          IF last_call.id \in DOMAIN last_call.table_before
          THEN /\ last_call.ret = TRUE
               /\ DOMAIN reminders = DOMAIN last_call.table_before \ {last_call.id}
               /\ \A id \in DOMAIN reminders : reminders[id] = last_call.table_before[id]
          ELSE /\ last_call.ret = FALSE
               /\ reminders = last_call.table_before
    /\ last_call.op = "get_reminders" =>
          \A i \in 1..Len(last_call.ret) : last_call.ret[i].user_id = last_call.user_id

\* a delete that found its row and left another row of the same owner
C30_Witness ==
    /\ last_call.op = "delete_reminder"
    /\ last_call.ret = TRUE
    /\ \E id \in DOMAIN reminders :
          reminders[id].user_id = last_call.table_before[last_call.id].user_id

\* client c has returned from delete_user_token
DeleteCompleted(c) ==
    /\ pc[c] = "done"
    /\ local[c].op = "delete_user_token"

\* C31: once delete_user_token for a user has returned, and no login has
\* followed, the user has no row in user_tokens, whatever get_valid_token
\* calls for the same user were in progress during the delete.
C31_NoRecordAfterDelete ==
    DeleteCompleted("c2") => local["c2"].user_id \notin DOMAIN user_tokens

\* the refresh that client c's get_valid_token attempted raised
RefreshFailed(c) ==
    /\ obs[c].refresh_calls = 1
    /\ obs[c].refresh_exit \in {"ValueError", "TransportError", "KeyError", "StorageError"}

\* C32: a record that get_valid_token returns after a failed refresh passes
\* is_token_valid at the time the call read the clock (now < expires_at); a
\* record with expires_at equal to that time is not returned.
C32_ReturnedAfterFailedRefreshIsUnexpired ==
    \A c \in Clients :
        (Done(c, "get_valid_token") /\ RefreshFailed(c) /\ result[c].value # None)
        => is_token_valid(result[c].value, local[c].current_time)

\* C33: a record that get_valid_token returns is the record user_tokens
\* holds for the user when the call returns (no other writer being active),
\* also when the refresh exchange succeeded and the save of the refreshed
\* record failed.
C33_ReturnedRecordIsStoredRecord ==
    \A c \in SeqClients :
        (Done(c, "get_valid_token") /\ result[c].value # None)
        => result[c].value = get_user_token(user_tokens, local[c].user_id)

\* C34: when the refreshes of two interleaved get_valid_token calls for one
\* user have both succeeded against a provider that rotates refresh tokens,
\* the refresh_token in user_tokens is the one the provider issued last.
C34_StoredRefreshTokenIsLatestIssued ==
    (\A c \in Clients : Refreshed(c))
        => user_tokens["u1"]["refresh_token"] = RefreshIssued(Answered)

\* the second call began after the first had refreshed and saved, and no
\* more time has passed since that refresh than its lifetime exceeds the window
FollowsRefresh ==
    /\ Refreshed("c1")
    /\ Done("c2", "get_valid_token")
    /\ obs["c2"].fetched = result["c1"].value
    /\ local["c2"].current_time - obs["c1"].refresh_time
          <= obs["c1"].response.json["expires_in"] - LOOKAHEAD

\* C35: a get_valid_token call that follows at once (or within the margin by
\* which the lifetime exceeds 300 seconds) a call that refreshed and saved a
\* record with a provider lifetime above 300 seconds makes no refresh call
\* and returns the record the first call returned.
C35_CallAfterRefreshDoesNotRefresh ==
    FollowsRefresh =>
        /\ obs["c2"].refresh_calls = 0
        /\ obs["c2"].network_calls = 0
        /\ result["c2"] = result["c1"]

\* the second call came with no time passed, after a refresh of lifetime 301
C35_Witness ==
    /\ FollowsRefresh
    /\ obs["c1"].response.json["expires_in"] = LOOKAHEAD + 1
    /\ local["c2"].current_time = obs["c1"].refresh_time
    /\ result["c2"].value["access_token"] = "A1"

\* C36: a delete request of one user deregisters a job only when the job's
\* owner is that user, and removes a row of reminders only when the row's
\* user_id is that user.
C36_DeleteTouchesOnlyOwnReminders ==
    /\ [][\A c \in Clients :
            (spc[c] = "idle" /\ spc'[c] = "delete_row" /\ jobs' # jobs)
            => JobOf(jobs, Str(task'[c].reminder_id)).args[1] = task'[c].user_id]_vars
    /\ [][\A c \in Clients :
            (spc[c] = "delete_row" /\ spc'[c] = "done" /\ reminders' # reminders)
            => reminders[task[c].reminder_id].user_id = task[c].user_id]_vars

\* C37: a job fires only while it is scheduled.  A firing begins only in a
\* running engine that holds the job; once delete_reminder has returned the
\* engine no longer holds the job, once stop has returned the engine is not
\* running, and only add_reminder or start put a job back and only start
\* makes the engine run again.
JobIds == {Str(id) : id \in 1..MaxReminderId}
FiringBegins == Len(fired') > Len(fired)
LastFired == fired'[Len(fired')].id
ScheduledStep ==
    /\ FiringBegins =>
          /\ running
          /\ get_job(jobs, LastFired)
          /\ ~(last_op.op = "delete_reminder" /\ last_op.id = LastFired)
          /\ last_op.op # "stop"
    /\ \A j \in JobIds :
          (~get_job(jobs, j) /\ get_job(jobs', j)) =>
              \/ last_op'.op = "start"
              \/ (last_op'.op = "add_reminder" /\ last_op'.id = j)
    /\ (~running /\ running') => last_op'.op = "start"
C37_FiresOnlyWhileScheduled ==
    /\ [](last_op.op = "delete_reminder" => ~get_job(jobs, last_op.id))
    /\ [](last_op.op = "stop" => ~running)
    /\ [][ScheduledStep]_vars

\* a job that has fired is removed while the engine keeps running
C37_Witness ==
    /\ last_op.op = "delete_reminder"
    /\ last_op.outcome = "True"
    /\ running
    /\ \E k \in 1..Len(fired) : fired[k].id = last_op.id

\* C38: start() on a running scheduler whose loader returned the persisted
\* rows returns normally, leaves the scheduler running, and afterwards the
\* scheduler holds the id of each persisted row exactly once.
RestartLoaded ==
    /\ last_op.op = "start"
    /\ last_op.running_before
    /\ last_op.loaded.kind = "return"
C38_RestartHoldsEachRowOnce ==
    RestartLoaded =>
        /\ last_op.exit = "return"
        /\ running
        /\ \A i \in 1..Len(last_op.loaded.value) :
             CountOf(jobs, Str(last_op.loaded.value[i].id)) = 1

\* C39: when start() loads a row whose cron does not parse, the call still
\* returns normally with the scheduler running, every loaded row with a valid
\* cron is registered under its id exactly once, and the unparsable row
\* registers nothing.
LoadedRows == last_op.loaded.value
LoadedInvalidRow ==
    /\ last_op.op = "start"
    /\ last_op.loaded.kind = "return"
    /\ \E i \in 1..Len(LoadedRows) : ~from_crontab_ok(LoadedRows[i].cron)
C39_InvalidRowSkippedAtStart ==
    LoadedInvalidRow =>
        /\ last_op.exit = "return"
        /\ running
        /\ \A i \in 1..Len(LoadedRows) :
             IF from_crontab_ok(LoadedRows[i].cron)
             THEN /\ CountOf(jobs, Str(LoadedRows[i].id)) = 1
                  /\ JobOf(jobs, Str(LoadedRows[i].id)).args =
                        <<LoadedRows[i].user_id, LoadedRows[i].message,
                          LoadedRows[i].cron>>
             ELSE get_job(jobs, Str(LoadedRows[i].id)) =
                    get_job(last_op.jobs_before, Str(LoadedRows[i].id))

\* an unparsable row is loaded before a valid row that was not yet registered
C39_Witness ==
    /\ LoadedInvalidRow
    /\ \E i, k \in 1..Len(LoadedRows) :
         /\ i < k
         /\ ~from_crontab_ok(LoadedRows[i].cron)
         /\ from_crontab_ok(LoadedRows[k].cron)
         /\ ~get_job(last_op.jobs_before, Str(LoadedRows[k].id))
         /\ get_job(jobs, Str(LoadedRows[k].id))

\* C40: every call that removed a stored credential record, by
\* delete_user_token or by the /logout handler, made one revoke attempt
\* before the record was removed.
RemovedRecord(c) ==
    /\ pc[c] = "done"
    /\ local[c].op \in {"delete_user_token", "handle_logout"}
    /\ local[c].user_id \in DOMAIN obs[c].entry_store
    /\ local[c].user_id \notin DOMAIN user_tokens
C40_EveryDeleteAttemptsRevoke ==
    \A c \in Clients : RemovedRecord(c) => obs[c].revoke_calls = 1
====
